---- MODULE Spec2Model ----
(***************************************************************************)
(* LocustDB storage core: ingestion, WAL flush / compaction and recovery   *)
(* (src/scheduler/inner_locustdb.rs) and the per-table ingestion Buffer    *)
(* (src/ingest/buffer.rs).                                                 *)
(*                                                                         *)
(* The database is opened with db_path = Some(..), so self.storage is      *)
(* Some(storage).  Storage (WAL files, partition files, metastore) and     *)
(* Table (open buffer, frozen buffer, partitions) are collaborators whose  *)
(* code is outside the modelled files; they are modelled from the          *)
(* specification text and marked so in the map.                            *)
(***************************************************************************)
EXTENDS Integers, Sequences, FiniteSets, TLC

(* ------------------------------ bounds -------------------------------- *)
NumClients == 2
MaxBatches == 2
MaxDirect == 2
MaxCrashes == 1
\* Options: max_wal_size_bytes, partition_combine_factor
MaxWalSizeBytes == 0
CombineFactor == 2
\* Buffer: mutations per run, pairs per row, values per input column
MaxBufferOps == 3
MaxRowLen == 2
MaxColLen == 2
\* batch merging: largest key, longest input vector, largest limit
MaxKey == 3
MaxLen == 3
MaxLimit == 4
\* combine: largest group-by key, most groups per batch
MaxGroupKey == 2
MaxRows == 3
\* HashMapGrouping: batches per operator, rows per batch
MaxGroupingBatches == 3
MaxBatchRows == 2
\* task queue: worker threads, schedule() calls
NumWorkers == 2
MaxTasks == 3
\* task queue: tasks handed out by await_task
MaxHanded == 5
\* IndexedPackedStrings: the entries are words of OffsetBits + LenBits bits
\* (40 + 24 in the source, scaled down here), pushes per structure
OffsetBits == 4
LenBits == 3
MaxPushes == 4
\* PackedStrings and PackedBytes: elements per sequence
MaxElems == 2
\* subpartition: columns per partition, heap bytes per column, the
\* max_partition_size_bytes option, characters per column name
MaxColumns == 3
MaxColBytes == 2
MaxPartitionBytes == 3
MaxNameLen == 2
\* lock view: threads calling into InnerLocustDB at the same time
NumLockThreads == 3

Clients == 1..NumClients
\* owner value of the wal_size mutex while the enforce_wal_limit thread holds it
FlushOwner == NumClients + 1
UserTableOrder == <<"t">>
UserTables == {UserTableOrder[i] : i \in 1..Len(UserTableOrder)}
MetaTables == "_meta_tables"
AllTables == UserTables \cup {MetaTables}

VARIABLES
  tables,           \* InnerLocustDB.tables: name -> index into heap (0: absent)
  heap,             \* the Table objects allocated since start, in allocation order
  wal_size,         \* InnerLocustDB.wal_size.0 (the counter behind the mutex)
  wal_lock,         \* holder of the wal_size mutex: 0 free, a client, or FlushOwner
  poisoned,         \* the wal_size mutex was dropped by a panicking holder
  thr,              \* per client thread: position and locals of its ingest call
  fl,               \* the enforce_wal_limit thread: position and locals of wal_flush
  next_wal_id,      \* Storage (memory): id of the next WAL segment
  metastore,        \* Storage (memory): metastore, with the earliest uncommitted id
  wal_files,        \* disk: <root>/wal/<id>
  partition_files,  \* disk: <root>/partitions/<table>/<id>/..
  meta_file,        \* disk: <root>/meta
  next_batch,       \* history: number of ingest_efficient calls made so far + 1
  acked,            \* history: the ingest_efficient calls that have returned
  persisted,        \* history: the batches whose persist_wal_segment has returned
  direct_calls,     \* history: number of ingest_single/_homogeneous/_heterogeneous calls
  crashes,          \* history: number of crashes so far
  buf,              \* a Buffer of ingest/buffer.rs: its columns and its length
  buf_ops,          \* history: number of mutations applied to buf
  cmb,              \* one call of a pure function: arguments and result
  grp,              \* a HashMapGrouping operator and its scratchpad buffers
  task_queue,       \* InnerLocustDB.task_queue: the ids of the queued tasks
  running,          \* InnerLocustDB.running
  sched,            \* the tasks scheduled so far: multithreaded(), completed()
  wk,               \* per worker thread: position in worker_loop / await_task
  handed,           \* history: the task ids await_task returned, in order
  queue_lock,       \* the thread holding the task_queue mutex, 0 when free
  stop_pc,          \* the position of the thread calling stop()
  ips,              \* an IndexedPackedStrings: data, backing_store, what was pushed
  lk                \* lock view: per thread its call and position, and who holds each lock

dbVars == <<tables, heap, wal_size, wal_lock, poisoned, thr, fl, next_wal_id,
            metastore, wal_files, partition_files, meta_file, next_batch, acked,
            persisted, direct_calls, crashes>>
bufVars == <<buf, buf_ops>>
taskVars == <<task_queue, running, sched, wk, handed, queue_lock, stop_pc>>
\* what the storage core's actions leave alone
auxVars == <<bufVars, cmb, grp, taskVars, ips, lk>>
vars == <<dbVars, bufVars, cmb, grp, taskVars, ips, lk>>

diskVars == <<wal_files, partition_files, meta_file>>
histVars == <<next_batch, acked, persisted, direct_calls, crashes>>
storageVars == <<next_wal_id, metastore, wal_files, partition_files, meta_file>>

(* ------------------------------ helpers ------------------------------- *)
RECURSIVE Concat(_)
Concat(ss) == IF ss = <<>> THEN <<>> ELSE Head(ss) \o Concat(Tail(ss))

Range(s) == {s[i] : i \in 1..Len(s)}

\* the records of S in ascending order of their id field
RECURSIVE SortById(_)
SortById(S) ==
  IF S = {} THEN <<>>
  ELSE LET x == CHOOSE y \in S : \A z \in S : y.id <= z.id
       IN <<x>> \o SortById(S \ {x})

RECURSIVE SumBytes(_)

\* a data row of an ingest_efficient batch (b >= 1) or of a direct ingest (b = 0)
DataRow(b) == [b |-> b, n |-> "-"]
\* the (timestamp, name) row staged for _meta_tables when table n is created
MetaRow(b, n) == [b |-> b, n |-> n]

NoEvents == [t \in {} |-> <<>>]

(* ------------------------- Table (mem_store) --------------------------- *)
NewTable(name) ==
  [name |-> name, buffer |-> <<>>, frozen |-> <<>>, partitions |-> <<>>, next_id |-> 0]

\* Table::ingest / ingest_homogeneous / ingest_heterogeneous: append to the open buffer
TableIngest(tb, rows) == [tb EXCEPT !.buffer = @ \o rows]

\* Table::freeze_buffer: swap the open buffer out; it becomes the pending partition
FreezeBuffer(tb) ==
  IF tb.buffer = <<>> THEN tb
  ELSE [tb EXCEPT !.frozen = @ \o tb.buffer, !.buffer = <<>>]

\* all rows a query of the table sees
TableRows(tb) == Concat([i \in 1..Len(tb.partitions) |-> tb.partitions[i].rows])
                   \o tb.frozen \o tb.buffer

(* ---------------------------- thread state ----------------------------- *)
IdleThread ==
  [pc |-> "idle", batch |-> 0, events |-> NoEvents, keys |-> {}, target |-> "-",
   meta_rows |-> <<>>, persist |-> "none", bytes |-> 0, todo |-> {}]

\* seen and late are history: the batches whose WAL segment was written when
\* the run froze the buffers, and those written during the last finished run
IdleFlush ==
  [pc |-> "poll", lo |-> 0, hi |-> 0, tables |-> {}, todo |-> {},
   new_partitions |-> {}, compactions |-> {}, to_delete |-> {}, panicked |-> {},
   seen |-> {}, late |-> {}]

\* the ingest call of client c is under way
InCall(c) == thr[c].pc \notin {"idle", "panicked"}

\* mutant: the condition variable is never signalled
NotifyNone(th) == th

\* wal_condvar.notify_all(), lines 286 and 325: every waiter leaves wait() and
\* must re-lock the mutex
NotifyAll(th) ==
  [c \in DOMAIN th |-> IF th[c].pc = "waiting" THEN [th[c] EXCEPT !.pc = "woken"] ELSE th[c]]

\* mutant: the backpressure loop is missing
WalLimitNeverExceeded(size) == FALSE

\* ingest_efficient line 188: the condition of the backpressure loop
WalLimitExceeded(size) == size > MaxWalSizeBytes

\* bytes written that Storage::persist_wal_segment reports for a segment
SegmentBytes(events) == Cardinality(DOMAIN events)

(* ------------------------------- Init ---------------------------------- *)
(* --------------------------- ingest/buffer.rs --------------------------- *)
ColNames == {"a", "b"}
Null == "null"
Val == "v"

\* MixedCol::with_nulls(n), push_nulls(n): a run of n nulls
RECURSIVE Nulls(_)
Nulls(n) == IF n = 0 THEN <<>> ELSE <<Null>> \o Nulls(n - 1)

\* Buffer::default()
EmptyBuffer == [cols |-> [n \in {} |-> <<>>], length |-> 0]

\* self.buffer.entry(name).or_insert_with(|| MixedCol::with_nulls(len))
EntryOrNulls(cols, name, len) == IF name \in DOMAIN cols THEN cols[name] ELSE Nulls(len)

\* the map cols with column name set to col
WithCol(cols, name, col) ==
  [n \in DOMAIN cols \cup {name} |-> IF n = name THEN col ELSE cols[n]]

\* extend_to_largest: columns shorter than self.length are padded with nulls
ExtendToLargest(b) ==
  [b EXCEPT !.cols = [n \in DOMAIN b.cols |->
     IF Len(b.cols[n]) < b.length
     THEN b.cols[n] \o Nulls(b.length - Len(b.cols[n]))
     ELSE b.cols[n]]]

\* the loop of push_row over the (name, value) pairs of the row, in order
RECURSIVE PushRowCols(_, _, _)
PushRowCols(cols, row, len) ==
  IF row = <<>> THEN cols
  ELSE LET name == Head(row)[1]
           col == EntryOrNulls(cols, name, len) \o <<Head(row)[2]>>
       IN PushRowCols(WithCol(cols, name, col), Tail(row), len)

push_row(b, row) ==
  ExtendToLargest([cols |-> PushRowCols(b.cols, row, b.length), length |-> b.length + 1])

\* the loop of the NullableInt and NullableFloat arms: data lists the indices
\* of the values present, c is the number of rows
RECURSIVE PushNullable(_, _, _, _)
PushNullable(col, c, data, next_i) ==
  IF data = <<>> THEN col \o Nulls(c - next_i)
  ELSE PushNullable(col \o Nulls(Head(data) - next_i) \o <<Val>>, c, Tail(data), Head(data) + 1)

\* the match on the InputColumn variant
PushInputColumn(col, input) ==
  CASE input.kind = "vals" -> col \o input.vals
    [] input.kind = "nulls" -> col \o Nulls(input.c)
    [] input.kind = "nullable" -> PushNullable(col, input.c, input.data, 0)

MaxOf(S) == IF S = {} THEN 0 ELSE CHOOSE x \in S : \A y \in S : y <= x

\* push_typed_cols: every named column is extended (or created with len
\* nulls), self.length becomes the longest of the named ones
push_typed_cols(b, columns) ==
  LET named == [n \in DOMAIN columns |->
                  PushInputColumn(EntryOrNulls(b.cols, n, b.length), columns[n])]
      cols == [n \in DOMAIN b.cols \cup DOMAIN columns |->
                  IF n \in DOMAIN columns THEN named[n] ELSE b.cols[n]]
      new_length == MaxOf({Len(named[n]) : n \in DOMAIN columns})
  IN ExtendToLargest([cols |-> cols, length |-> new_length])

\* push_untyped_cols: the same with the values pushed one by one
push_untyped_cols(b, columns) ==
  LET named == [n \in DOMAIN columns |->
                  EntryOrNulls(b.cols, n, b.length) \o columns[n]]
      cols == [n \in DOMAIN b.cols \cup DOMAIN columns |->
                  IF n \in DOMAIN columns THEN named[n] ELSE b.cols[n]]
      new_length == MaxOf({Len(named[n]) : n \in DOMAIN columns})
  IN ExtendToLargest([cols |-> cols, length |-> new_length])

\* the arguments tried
SeqsUpTo(S, n) == UNION {[1..k -> S] : k \in 0..n}
Rows == SeqsUpTo(ColNames \X {Val, Null}, MaxRowLen)
\* the strictly ascending index lists below c
NullableData(c) ==
  {<<>>} \cup {<<i>> : i \in 0..(c - 1)}
         \cup {<<i, j>> : <<i, j>> \in {p \in (0..(c - 1)) \X (0..(c - 1)) : p[1] < p[2]}}
InputColumns ==
  {[kind |-> "vals", vals |-> v, c |-> 0, data |-> <<>>] : v \in SeqsUpTo({Val}, MaxColLen)}
    \cup {[kind |-> "nulls", vals |-> <<>>, c |-> c, data |-> <<>>] : c \in 0..MaxColLen}
    \cup UNION {{[kind |-> "nullable", vals |-> <<>>, c |-> c, data |-> d] : d \in NullableData(c)}
                  : c \in 0..MaxColLen}
ColumnMaps(S) == UNION {[N -> S] : N \in SUBSET ColNames}

(* ------------------------ initial values ------------------------------- *)
\* no batch merging function has been called
NoCall == [op |-> "none"]

\* HashMapGrouping::boxed followed by init(): empty map, unique and grouping_key
NewGrouping ==
  [map |-> [v \in {} |-> 0], unique |-> <<>>, grouping_key |-> <<>>,
   cardinality |-> 0, input |-> <<>>, batches |-> 0, stream |-> TRUE, all |-> <<>>]

Workers == 1..NumWorkers
\* IndexedPackedStrings::default(); backing_store is kept by its length,
\* pushed is the history of the (offset, length) of every push
NewIndexedPackedStrings ==
  [data |-> <<>>, backing_store |-> 0, pushed |-> <<>>, panicked |-> FALSE]
\* a worker thread at the top of worker_loop
IdleWorker == [pc |-> "loop", task |-> 0]

\* InnerLocustDB::new on an empty db_path: no tables restored, wal_size 0,
\* then create_if_empty_no_ingest("_meta_tables")
LockThreads == 1..NumLockThreads

\* no thread is inside a call, every lock is free: pc is the call and the
\* position in it, wal_size and task_queue the thread holding that mutex,
\* writer the thread holding tables.write(), readers the tables.read() guards
\* each thread holds
NoLocks ==
  [pc |-> [t \in LockThreads |-> [op |-> "none", at |-> 0]],
   wal_size |-> 0, task_queue |-> 0, writer |-> 0,
   readers |-> [t \in LockThreads |-> 0]]

Init ==
  /\ heap = <<NewTable(MetaTables)>>
  /\ tables = [t \in AllTables |-> IF t = MetaTables THEN 1 ELSE 0]
  /\ wal_size = 0
  /\ wal_lock = 0
  /\ poisoned = FALSE
  /\ thr = [c \in Clients |-> IdleThread]
  /\ fl = IdleFlush
  /\ next_wal_id = 0
  /\ metastore = [hwm |-> 0, parts |-> {}]
  /\ wal_files = {}
  /\ partition_files = {}
  /\ meta_file = [hwm |-> 0, parts |-> {}]
  /\ next_batch = 1
  /\ acked = {}
  /\ persisted = {}
  /\ direct_calls = 0
  /\ crashes = 0
  /\ buf = EmptyBuffer
  /\ buf_ops = 0
  /\ cmb = NoCall
  /\ grp = NewGrouping
  /\ task_queue = <<>>
  /\ running = TRUE
  /\ sched = <<>>
  /\ wk = [w \in Workers |-> IdleWorker]
  /\ handed = <<>>
  /\ queue_lock = 0
  /\ stop_pc = "idle"
  /\ ips = NewIndexedPackedStrings
  /\ lk = NoLocks

(* -------------------------- ingest_efficient --------------------------- *)
\* lines 186-191 after the mutex is acquired: panic on a poisoned mutex, wait on
\* the condition variable while the WAL is over its limit, else go on holding it
AfterLock(c, th) ==
  IF poisoned THEN
    /\ thr' = [th EXCEPT ![c].pc = "panicked"]
    /\ UNCHANGED wal_lock
  ELSE IF WalLimitExceeded(wal_size) THEN
    /\ thr' = [th EXCEPT ![c].pc = "waiting"]
    /\ UNCHANGED wal_lock
  ELSE
    /\ thr' = [th EXCEPT ![c].pc = "create", ![c].keys = DOMAIN th[c].events]
    /\ wal_lock' = c

\* a client calls ingest_efficient(events) with one TableBuffer per table of T
IngestEfficientEnter(c, T) ==
  /\ thr[c].pc = "idle"
  /\ next_batch <= MaxBatches
  /\ wal_lock = 0
  /\ AfterLock(c, [thr EXCEPT ![c].batch = next_batch,
                              ![c].events = [t \in T |-> <<DataRow(next_batch)>>]])
  /\ next_batch' = next_batch + 1
  /\ UNCHANGED <<auxVars, tables, heap, wal_size, poisoned, fl, storageVars, acked,
                 persisted, direct_calls, crashes>>

\* wal_condvar.wait returns: the mutex is re-acquired and the loop re-tests
IngestEfficientWake(c) ==
  /\ thr[c].pc = "woken"
  /\ wal_lock = 0
  /\ AfterLock(c, thr)
  /\ UNCHANGED <<auxVars, tables, heap, wal_size, poisoned, fl, storageVars, histVars>>

\* create_if_empty_no_ingest, lines 554-557: the existence test under the read lock
CreateCheck(c) ==
  /\ thr[c].pc = "create"
  /\ \E t \in thr[c].keys :
       IF tables[t] # 0
       THEN thr' = [thr EXCEPT ![c].keys = @ \ {t}]
       ELSE thr' = [thr EXCEPT ![c].pc = "insert", ![c].target = t]
  /\ UNCHANGED <<auxVars, tables, heap, wal_size, wal_lock, poisoned, fl, storageVars, histVars>>

\* create_if_empty_no_ingest, lines 558-572: insert a new Table under the write
\* lock (HashMap::insert replaces an entry made meanwhile) and return the row
CreateInsert(c) ==
  /\ thr[c].pc = "insert"
  /\ heap' = Append(heap, NewTable(thr[c].target))
  /\ tables' = [tables EXCEPT ![thr[c].target] = Len(heap) + 1]
  /\ thr' = [thr EXCEPT ![c].pc = "create",
                        ![c].keys = @ \ {thr[c].target},
                        ![c].meta_rows = Append(@, MetaRow(thr[c].batch, thr[c].target)),
                        ![c].target = "-"]
  /\ UNCHANGED <<auxVars, wal_size, wal_lock, poisoned, fl, storageVars, histVars>>

\* lines 199-230: add the _meta_tables TableBuffer, spawn the persist thread
SpawnPersist(c) ==
  /\ thr[c].pc = "create"
  /\ thr[c].keys = {}
  /\ LET ev == IF thr[c].meta_rows = <<>> THEN thr[c].events
               ELSE [t \in DOMAIN thr[c].events \cup {MetaTables} |->
                       IF t = MetaTables THEN thr[c].meta_rows ELSE thr[c].events[t]]
     IN thr' = [thr EXCEPT ![c].events = ev,
                           ![c].meta_rows = <<>>,
                           ![c].persist = "running",
                           ![c].todo = DOMAIN ev,
                           ![c].pc = IF DOMAIN ev = {} THEN "join" ELSE "apply"]
  /\ UNCHANGED <<auxVars, tables, heap, wal_size, wal_lock, poisoned, fl, storageVars, histVars>>

\* the spawned thread: Storage::persist_wal_segment writes and syncs the segment
\* under the next id and returns the bytes written
PersistWalSegment(c) ==
  /\ thr[c].pc \in {"apply", "join", "notify"}
  /\ thr[c].persist = "running"
  /\ wal_files' = wal_files \cup
       {[id |-> next_wal_id, batch |-> thr[c].batch, data |-> thr[c].events]}
  /\ next_wal_id' = next_wal_id + 1
  /\ thr' = [thr EXCEPT ![c].persist = "done", ![c].bytes = SegmentBytes(thr[c].events)]
  /\ persisted' = persisted \cup {thr[c].batch}
  /\ UNCHANGED <<auxVars, tables, heap, wal_size, wal_lock, poisoned, fl, metastore,
                 partition_files, meta_file, next_batch, acked, direct_calls, crashes>>

\* the spawned thread fails with a storage error: it panics, nothing is written
PersistWalSegmentFails(c) ==
  /\ thr[c].pc \in {"apply", "join", "notify"}
  /\ thr[c].persist = "running"
  /\ thr' = [thr EXCEPT ![c].persist = "failed"]
  /\ UNCHANGED <<auxVars, tables, heap, wal_size, wal_lock, poisoned, fl, storageVars, histVars>>

\* lines 232-280, one iteration: apply one TableBuffer to its table's open buffer
ApplyTableBuffer(c) ==
  /\ thr[c].pc = "apply"
  /\ \E t \in thr[c].todo :
       /\ heap' = [heap EXCEPT ![tables[t]] = TableIngest(@, thr[c].events[t])]
       /\ thr' = [thr EXCEPT ![c].todo = @ \ {t},
                             ![c].pc = IF thr[c].todo = {t} THEN "join" ELSE "apply"]
  /\ UNCHANGED <<auxVars, tables, wal_size, wal_lock, poisoned, fl, storageVars, histVars>>

\* mutant: the result is used without waiting for the persist thread
JoinOutcomeNoWait(persist) == IF persist = "failed" THEN "panic" ELSE "bytes_written"

\* mutant: a failed persist thread is taken for one that wrote nothing
JoinOutcomeIgnoreFailure(persist) == IF persist = "running" THEN "blocked" ELSE "bytes_written"

\* line 283, jh.join().unwrap(): blocks while the persist thread runs, yields
\* its result when it has returned, panics when it has panicked
JoinOutcome(persist) ==
  IF persist = "running" THEN "blocked"
  ELSE IF persist = "done" THEN "bytes_written"
  ELSE "panic"

\* lines 282-285: join the persist thread and add the bytes written; a panic
\* unwinds through the guard, which poisons and releases the mutex
JoinPersist(c) ==
  /\ thr[c].pc = "join"
  /\ JoinOutcome(thr[c].persist) # "blocked"
  /\ IF JoinOutcome(thr[c].persist) = "bytes_written"
     THEN /\ wal_size' = wal_size + thr[c].bytes
          /\ thr' = [thr EXCEPT ![c].pc = "notify"]
          /\ UNCHANGED <<wal_lock, poisoned>>
     ELSE /\ thr' = [thr EXCEPT ![c].pc = "panicked"]
          /\ poisoned' = TRUE
          /\ wal_lock' = 0
          /\ UNCHANGED wal_size
  /\ UNCHANGED <<auxVars, tables, heap, fl, storageVars, histVars>>

\* lines 286-287: notify_all, return (the guard is dropped)
NotifyReturn(c) ==
  /\ thr[c].pc = "notify"
  /\ thr' = NotifyAll([thr EXCEPT ![c] = IdleThread])
  /\ wal_lock' = 0
  /\ acked' = acked \cup {[batch |-> thr[c].batch, data |-> thr[c].events]}
  /\ UNCHANGED <<auxVars, tables, heap, wal_size, poisoned, fl, storageVars, next_batch,
                 persisted, direct_calls, crashes>>

IngestEfficient(c) ==
  \/ \E T \in (SUBSET UserTables) \ {{}} : IngestEfficientEnter(c, T)
  \/ IngestEfficientWake(c)
  \/ CreateCheck(c)
  \/ CreateInsert(c)
  \/ SpawnPersist(c)
  \/ PersistWalSegment(c)
  \/ PersistWalSegmentFails(c)
  \/ ApplyTableBuffer(c)
  \/ JoinPersist(c)
  \/ NotifyReturn(c)

(* ------- ingest_single / ingest_homogeneous / ingest_heterogeneous ------ *)
\* The three entry points differ only in the Table method that appends the
\* rows; each first calls create_if_empty(table).
\* create_if_empty, lines 579-582: the existence test under the read lock
DirectEnter(c, t) ==
  /\ thr[c].pc = "idle"
  /\ direct_calls < MaxDirect
  /\ direct_calls' = direct_calls + 1
  /\ thr' = [thr EXCEPT ![c].target = t,
                        ![c].pc = IF tables[t] # 0 THEN "d_ingest" ELSE "d_insert"]
  /\ UNCHANGED <<auxVars, tables, heap, wal_size, wal_lock, poisoned, fl, storageVars,
                 next_batch, acked, persisted, crashes>>

\* create_if_empty, lines 584-590: insert a new Table under the write lock
DirectInsert(c) ==
  /\ thr[c].pc = "d_insert"
  /\ heap' = Append(heap, NewTable(thr[c].target))
  /\ tables' = [tables EXCEPT ![thr[c].target] = Len(heap) + 1]
  /\ thr' = [thr EXCEPT ![c].pc = "d_meta"]
  /\ UNCHANGED <<auxVars, wal_size, wal_lock, poisoned, fl, storageVars, histVars>>

\* create_if_empty, lines 591-605: ingest_single("_meta_tables", (now, name));
\* _meta_tables exists since new(), so the nested create_if_empty does nothing
DirectMetaRow(c) ==
  /\ thr[c].pc = "d_meta"
  /\ heap' = [heap EXCEPT ![tables[MetaTables]] =
                TableIngest(@, <<MetaRow(0, thr[c].target)>>)]
  /\ thr' = [thr EXCEPT ![c].pc = "d_ingest"]
  /\ UNCHANGED <<auxVars, tables, wal_size, wal_lock, poisoned, fl, storageVars, histVars>>

\* lines 181-182 (519-520, 525-526): tables.get(table).unwrap().ingest(row)
DirectIngest(c) ==
  /\ thr[c].pc = "d_ingest"
  /\ heap' = [heap EXCEPT ![tables[thr[c].target]] = TableIngest(@, <<DataRow(0)>>)]
  /\ thr' = [thr EXCEPT ![c] = IdleThread]
  /\ UNCHANGED <<auxVars, tables, wal_size, wal_lock, poisoned, fl, storageVars, histVars>>

IngestDirect(c) ==
  \/ \E t \in UserTables : DirectEnter(c, t)
  \/ DirectInsert(c)
  \/ DirectMetaRow(c)
  \/ DirectIngest(c)

(* ------------------- Table: batch, compaction plan --------------------- *)
\* Table::batch: the frozen buffer, if any, becomes the partition with the next id
BatchTable(tb) ==
  IF tb.frozen = <<>> THEN tb
  ELSE [tb EXCEPT !.partitions = Append(@, [id |-> tb.next_id, rows |-> tb.frozen]),
                  !.frozen = <<>>,
                  !.next_id = @ + 1]

\* Table::plan_compaction(combine_factor): the ids of the first run of
\* combine_factor partitions, if the table has that many
PlanCompaction(tb, factor) ==
  IF Len(tb.partitions) >= factor
  THEN {tb.partitions[i].id : i \in 1..factor}
  ELSE {}

\* Table::compact(id, offset, columns, parts): one partition replaces the run
CompactTable(tb, id, parts) ==
  LET old == SelectSeq(tb.partitions, LAMBDA p : p.id \in parts)
      keep == SelectSeq(tb.partitions, LAMBDA p : p.id \notin parts)
      rows == Concat([i \in 1..Len(old) |-> old[i].rows])
  IN [tb EXCEPT !.partitions = <<[id |-> id, rows |-> rows]>> \o keep]

\* rows the read_column queries of compact() return for the partitions in parts
CompactedRows(tb, parts) ==
  LET old == SelectSeq(tb.partitions, LAMBDA p : p.id \in parts)
  IN Concat([i \in 1..Len(old) |-> old[i].rows])

(* --------------------------- Storage (disk) ---------------------------- *)
\* a partition written under <table>/<id>: a later write of the same key replaces it
PutPartition(files, p) ==
  {f \in files : ~(f.table = p.table /\ f.id = p.id)} \cup {p}

RECURSIVE PutPartitions(_, _)
PutPartitions(files, ps) ==
  IF ps = {} THEN files
  ELSE LET p == CHOOSE q \in ps : TRUE
       IN PutPartitions(PutPartition(files, p), ps \ {p})

\* Storage::uncommited_wal_ids
UncommitedWalIds == [lo |-> metastore.hwm, hi |-> next_wal_id]

(* ------------------------------ wal_flush ------------------------------ *)
\* mutant: the WAL segments are deleted before the metastore is persisted
StepAfterWalFirst(step) ==
  CASE step = "batching" -> "persist_partitions"
    [] step = "persist_partitions" -> "compaction"
    [] step = "compaction" -> "delete_wal"
    [] step = "delete_wal" -> "delete_partitions"
    [] step = "delete_partitions" -> "persist_metastore"
    [] step = "persist_metastore" -> "poll"

\* the order of the steps of wal_flush after the freeze phase, lines 329-384
StepAfter(step) ==
  CASE step = "batching" -> "persist_partitions"
    [] step = "persist_partitions" -> "compaction"
    [] step = "compaction" -> "persist_metastore"
    [] step = "persist_metastore" -> "delete_partitions"
    [] step = "delete_partitions" -> "delete_wal"
    [] step = "delete_wal" -> "poll"

\* wal_flush goes on to the step after `step`; after the last one it returns
FlushAdvance(f, step) ==
  IF StepAfter(step) = "poll" THEN [IdleFlush EXCEPT !.late = persisted \ f.seen]
  ELSE [f EXCEPT !.pc = StepAfter(step)]

\* enforce_wal_limit, lines 645-651: read wal_size under the mutex, flush if
\* over the limit, else sleep
EnforceWalLimit ==
  /\ fl.pc = "poll"
  /\ wal_lock = 0
  /\ fl' = IF poisoned THEN [fl EXCEPT !.pc = "dead"]
           ELSE IF wal_size > MaxWalSizeBytes THEN [fl EXCEPT !.pc = "flush"]
           ELSE fl
  /\ UNCHANGED <<auxVars, tables, heap, wal_size, wal_lock, poisoned, thr, storageVars, histVars>>

\* the mutex guard of the freeze phase, line 308
FreezeLockFree == wal_lock = 0

\* wal_flush, lines 306-320: lock wal_size, record the uncommitted WAL ids,
\* clone the Arc<Table> of every table
FlushLock ==
  /\ fl.pc = "flush"
  /\ FreezeLockFree
  /\ IF poisoned
     THEN /\ fl' = [fl EXCEPT !.pc = "dead"]
          /\ UNCHANGED wal_lock
     ELSE /\ fl' = [fl EXCEPT !.pc = "freeze",
                              !.lo = UncommitedWalIds.lo,
                              !.hi = UncommitedWalIds.hi,
                              !.seen = persisted,
                              !.late = {},
                              !.tables = {tables[t] : t \in {u \in AllTables : tables[u] # 0}},
                              !.todo = {tables[t] : t \in {u \in AllTables : tables[u] # 0}}]
          /\ wal_lock' = IF wal_lock = 0 THEN FlushOwner ELSE wal_lock
  /\ UNCHANGED <<auxVars, tables, heap, wal_size, poisoned, thr, storageVars, histVars>>

\* lines 321-323, one iteration: table.freeze_buffer()
FlushFreezeBuffer ==
  /\ fl.pc = "freeze"
  /\ \E o \in fl.todo :
       /\ heap' = [heap EXCEPT ![o] = FreezeBuffer(@)]
       /\ fl' = [fl EXCEPT !.todo = @ \ {o}]
  /\ UNCHANGED <<auxVars, tables, wal_size, wal_lock, poisoned, thr, storageVars, histVars>>

\* lines 324-325: reset wal_size, notify_all
FlushFreezeReset ==
  /\ fl.pc = "freeze"
  /\ fl.todo = {}
  /\ wal_size' = 0
  /\ thr' = NotifyAll(thr)
  /\ fl' = [fl EXCEPT !.pc = "unlock"]
  /\ UNCHANGED <<auxVars, tables, heap, wal_lock, poisoned, storageVars, histVars>>

\* line 326: the guard is dropped at the end of the block
FlushUnlock ==
  /\ fl.pc = "unlock"
  /\ wal_lock' = IF wal_lock = FlushOwner THEN 0 ELSE wal_lock
  /\ fl' = [fl EXCEPT !.pc = "batching", !.todo = fl.tables]
  /\ UNCHANGED <<auxVars, tables, heap, wal_size, poisoned, thr, storageVars, histVars>>

\* flush_table_buffer(table), lines 396-443, run on the flush pool for one table
FlushTableBuffer ==
  /\ fl.pc = "batching"
  /\ \E o \in fl.todo :
       LET tb == heap[o]
           tb1 == BatchTable(tb)
           newp == IF tb.frozen = <<>> THEN {}
                   ELSE {[table |-> tb.name, id |-> tb.next_id, rows |-> tb.frozen]}
           plan == PlanCompaction(tb1, CombineFactor)
           job == IF plan = {} THEN {}
                  ELSE {[obj |-> o, id |-> tb1.next_id, parts |-> plan]}
           tb2 == IF plan = {} THEN tb1 ELSE [tb1 EXCEPT !.next_id = @ + 1]
           f1 == [fl EXCEPT !.todo = @ \ {o},
                            !.new_partitions = @ \cup newp,
                            !.compactions = @ \cup job]
       IN /\ heap' = [heap EXCEPT ![o] = tb2]
          /\ fl' = IF f1.todo = {} THEN FlushAdvance(f1, "batching") ELSE f1
  /\ UNCHANGED <<auxVars, tables, wal_size, wal_lock, poisoned, thr, storageVars, histVars>>

\* lines 353-355: Storage::persist_partitions writes the partition files and
\* enters the partitions in the in-memory metastore
PersistPartitions ==
  /\ fl.pc = "persist_partitions"
  /\ partition_files' = PutPartitions(partition_files, fl.new_partitions)
  /\ metastore' = [metastore EXCEPT !.parts = PutPartitions(@, fl.new_partitions)]
  /\ fl' = FlushAdvance(fl, "persist_partitions")
  /\ UNCHANGED <<auxVars, tables, heap, wal_size, wal_lock, poisoned, thr, next_wal_id,
                 wal_files, meta_file, histVars>>

\* compact(table, id, range, parts), lines 445-506, one job of the flush pool:
\* read the old partitions, replace them in the Table, write the new partition
\* and update the in-memory metastore (Storage::prepare_compact)
Compact ==
  /\ fl.pc = "compaction"
  /\ \E j \in fl.compactions \ fl.panicked :
       LET tb == heap[j.obj]
           newp == [table |-> tb.name, id |-> j.id, rows |-> CompactedRows(tb, j.parts)]
       IN /\ heap' = [heap EXCEPT ![j.obj] = CompactTable(tb, j.id, j.parts)]
          /\ partition_files' = PutPartition(partition_files, newp)
          /\ metastore' = [metastore EXCEPT !.parts =
               {p \in @ : ~(p.table = tb.name /\ p.id \in j.parts)} \cup {newp}]
          /\ fl' = [fl EXCEPT !.compactions = @ \ {j},
                              !.to_delete = @ \cup {<<tb.name, id>> : id \in j.parts}]
  /\ UNCHANGED <<auxVars, tables, wal_size, wal_lock, poisoned, thr, next_wal_id, wal_files,
                 meta_file, histVars>>

\* compact, lines 468-469: the query that reads a column ends in an error, the
\* unwrap panics on the pool thread and the job never sends its result
CompactFails ==
  /\ fl.pc = "compaction"
  /\ \E j \in fl.compactions \ fl.panicked :
       fl' = [fl EXCEPT !.panicked = @ \cup {j}]
  /\ UNCHANGED <<auxVars, tables, heap, wal_size, wal_lock, poisoned, thr, storageVars, histVars>>

\* line 369: all compaction jobs have sent their result; rx.iter().take(n)
\* blocks while fewer than n results have arrived, the sender tx of wal_flush
\* being still alive
CompactionsDone ==
  /\ fl.pc = "compaction"
  /\ fl.compactions = {}
  /\ fl' = FlushAdvance(fl, "compaction")
  /\ UNCHANGED <<auxVars, tables, heap, wal_size, wal_lock, poisoned, thr, storageVars, histVars>>

\* lines 374-375: Storage::persist_metastore(uncommited_wal_ids.end)
PersistMetastore ==
  /\ fl.pc = "persist_metastore"
  /\ metastore' = [metastore EXCEPT !.hwm = fl.hi]
  /\ meta_file' = [metastore EXCEPT !.hwm = fl.hi]
  /\ fl' = FlushAdvance(fl, "persist_metastore")
  /\ UNCHANGED <<auxVars, tables, heap, wal_size, wal_lock, poisoned, thr, next_wal_id,
                 wal_files, partition_files, histVars>>

\* line 378: Storage::delete_orphaned_partitions(partitions_to_delete)
DeleteOrphanedPartitions ==
  /\ fl.pc = "delete_partitions"
  /\ partition_files' = {f \in partition_files : <<f.table, f.id>> \notin fl.to_delete}
  /\ fl' = FlushAdvance(fl, "delete_partitions")
  /\ UNCHANGED <<auxVars, tables, heap, wal_size, wal_lock, poisoned, thr, next_wal_id,
                 metastore, wal_files, meta_file, histVars>>

\* mutant: the range of WAL ids is read again when the segments are deleted
DeleteWalSegmentsReread ==
  /\ fl.pc = "delete_wal"
  /\ wal_files' = {s \in wal_files : ~(fl.lo <= s.id /\ s.id < UncommitedWalIds.hi)}
  /\ fl' = FlushAdvance(fl, "delete_wal")
  /\ UNCHANGED <<auxVars, tables, heap, wal_size, wal_lock, poisoned, thr, next_wal_id,
                 metastore, partition_files, meta_file, histVars>>

\* line 382: Storage::delete_wal_segments(uncommited_wal_ids)
DeleteWalSegments ==
  /\ fl.pc = "delete_wal"
  /\ wal_files' = {s \in wal_files : ~(fl.lo <= s.id /\ s.id < fl.hi)}
  /\ fl' = FlushAdvance(fl, "delete_wal")
  /\ UNCHANGED <<auxVars, tables, heap, wal_size, wal_lock, poisoned, thr, next_wal_id,
                 metastore, partition_files, meta_file, histVars>>

WalFlush ==
  \/ EnforceWalLimit
  \/ FlushLock
  \/ FlushFreezeBuffer
  \/ FlushFreezeReset
  \/ FlushUnlock
  \/ FlushTableBuffer
  \/ PersistPartitions
  \/ Compact
  \/ CompactionsDone
  \/ PersistMetastore
  \/ DeleteOrphanedPartitions
  \/ DeleteWalSegments

(* -------------------------- crash and restart -------------------------- *)
\* the WAL segments a restart replays: those at or above the persisted mark
ReplayedSegments == {s \in wal_files : s.id >= meta_file.hwm}

SumBytes(S) ==
  IF S = {} THEN 0
  ELSE LET s == CHOOSE x \in S : TRUE IN SegmentBytes(s.data) + SumBytes(S \ {s})

\* the rows of the replayed segments for table name, in segment order
ReplayedRows(name) ==
  LET segs == SortById({s \in ReplayedSegments : name \in DOMAIN s.data})
  IN Concat([i \in 1..Len(segs) |-> segs[i].data[name]])

\* the partitions the persisted metastore lists for table name, read from disk
RestoredPartitions(name) ==
  LET ps == SortById({p \in meta_file.parts : p.table = name})
  IN [i \in 1..Len(ps) |->
        [id |-> ps[i].id,
         rows |-> IF \E f \in partition_files : f.table = name /\ f.id = ps[i].id
                  THEN (CHOOSE f \in partition_files : f.table = name /\ f.id = ps[i].id).rows
                  ELSE <<>>]]

\* Table::restore_tables_from_disk for one table
RestoredTable(name) ==
  LET ps == RestoredPartitions(name)
  IN [name |-> name, buffer |-> ReplayedRows(name), frozen |-> <<>>, partitions |-> ps,
      next_id |-> IF ps = <<>> THEN 0 ELSE ps[Len(ps)].id + 1]

RestoredNames ==
  {p.table : p \in meta_file.parts}
    \cup UNION {DOMAIN s.data : s \in ReplayedSegments}

\* the process dies and InnerLocustDB::new (lines 59-106) runs on the same
\* directory: Storage::new, Table::restore_tables_from_disk, then
\* create_if_empty_no_ingest("_meta_tables")
CrashRestart ==
  /\ crashes < MaxCrashes
  /\ crashes' = crashes + 1
  /\ LET order == <<MetaTables>>
                    \o SelectSeq(UserTableOrder, LAMBDA t : t \in RestoredNames)
     IN /\ heap' = [i \in 1..Len(order) |-> RestoredTable(order[i])]
        /\ tables' = [t \in AllTables |->
                        IF \E i \in 1..Len(order) : order[i] = t
                        THEN CHOOSE i \in 1..Len(order) : order[i] = t
                        ELSE 0]
  /\ wal_size' = SumBytes(ReplayedSegments)
  /\ wal_lock' = 0
  /\ poisoned' = FALSE
  /\ thr' = [c \in Clients |-> IdleThread]
  /\ fl' = IdleFlush
  /\ metastore' = meta_file
  /\ next_wal_id' = IF wal_files = {} THEN meta_file.hwm
                    ELSE LET top == CHOOSE s \in wal_files : \A r \in wal_files : r.id <= s.id
                         IN IF top.id + 1 > meta_file.hwm THEN top.id + 1 ELSE meta_file.hwm
  /\ UNCHANGED <<auxVars, diskVars, next_batch, acked, persisted, direct_calls>>

(* ------------------------ Buffer mutations ----------------------------- *)
PushRow ==
  /\ buf_ops < MaxBufferOps
  /\ \E row \in Rows : buf' = push_row(buf, row)
  /\ buf_ops' = buf_ops + 1
  /\ UNCHANGED <<dbVars, cmb, grp, taskVars, ips, lk>>

PushTypedCols ==
  /\ buf_ops < MaxBufferOps
  /\ \E columns \in ColumnMaps(InputColumns) : buf' = push_typed_cols(buf, columns)
  /\ buf_ops' = buf_ops + 1
  /\ UNCHANGED <<dbVars, cmb, grp, taskVars, ips, lk>>

PushUntypedCols ==
  /\ buf_ops < MaxBufferOps
  /\ \E columns \in ColumnMaps(SeqsUpTo({Val, Null}, MaxColLen)) :
       buf' = push_untyped_cols(buf, columns)
  /\ buf_ops' = buf_ops + 1
  /\ UNCHANGED <<dbVars, cmb, grp, taskVars, ips, lk>>

NextBuffer == PushRow \/ PushTypedCols \/ PushUntypedCols

\* ingest_efficient lines 241-275: the InputColumn made of a ColumnData of a
\* TableBuffer of `rows` rows. Dense stands for Dense and I64, Sparse for
\* Sparse and SparseI64; len is the number of values of a dense column.
ToInputColumn(rows, v) ==
  CASE v.kind = "Dense" ->
         IF v.len < rows
         THEN [kind |-> "nullable", vals |-> <<>>, c |-> rows,
               data |-> [i \in 1..v.len |-> i - 1]]
         ELSE [kind |-> "vals", vals |-> [i \in 1..v.len |-> Val], c |-> 0, data |-> <<>>]
    [] v.kind = "Sparse" -> [kind |-> "nullable", vals |-> <<>>, c |-> rows, data |-> v.data]
    [] v.kind = "String" -> [kind |-> "vals", vals |-> [i \in 1..v.len |-> Val], c |-> 0,
                             data |-> <<>>]
    [] v.kind = "Empty" -> [kind |-> "nulls", vals |-> <<>>, c |-> rows, data |-> <<>>]

\* the columns a TableBuffer of `rows` rows can hold: dense columns of up to
\* rows values, sparse columns with ascending row indices, strings for every
\* row, empty columns
ColumnDatas(rows) ==
  {[kind |-> "Dense", len |-> n, data |-> <<>>] : n \in 0..rows}
    \cup {[kind |-> "Sparse", len |-> 0, data |-> d] : d \in NullableData(rows)}
    \cup {[kind |-> "String", len |-> rows, data |-> <<>>],
          [kind |-> "Empty", len |-> 0, data |-> <<>>]}

\* ingest_efficient lines 232-280 for one table: the columns of the
\* TableBuffer are converted and handed to the table's buffer
\* (Table::ingest_homogeneous, Buffer::push_typed_cols); cmb keeps the batch
IngestTableBuffer ==
  /\ buf_ops < MaxBufferOps
  /\ \E rows \in 1..MaxColLen : \E columns \in ColumnMaps(ColumnDatas(rows)) :
       /\ buf' = push_typed_cols(buf, [n \in DOMAIN columns |->
                                         ToInputColumn(rows, columns[n])])
       /\ cmb' = [op |-> "ingest", rows |-> rows, columns |-> columns]
  /\ buf_ops' = buf_ops + 1
  /\ UNCHANGED <<dbVars, grp, taskVars, ips, lk>>

NextIngestCols == IngestTableBuffer

SpecIngestCols == Init /\ [][NextIngestCols]_vars

SpecBuffer == Init /\ [][NextBuffer]_vars

(* ---------------------- engine/batch_merging.rs ------------------------- *)
\* Comparator::cmp / cmp_eq of CmpLessThan and CmpGreaterThan: non-strict
Cmp(c, a, b) == IF c = "CmpLessThan" THEN a <= b ELSE a >= b
CmpEq(c, a, b) == IF c = "CmpLessThan" THEN a <= b ELSE a >= b
Comparators == {"CmpLessThan", "CmpGreaterThan"}

Min2(a, b) == IF a <= b THEN a ELSE b
Max2(a, b) == IF a >= b THEN a ELSE b

\* mutant: a tail loop pushes one op however many elements it takes
RepeatOnce(op, n) == IF n = 0 THEN <<>> ELSE <<op>>

\* n times the same op
Repeat(op, n) == [k \in 1..n |-> op]

\* mutant: the last result is never recognised
LastIsNever(result, x) == FALSE

\* result.last() == Some(&x)
LastIs(result, x) == result # <<>> /\ result[Len(result)] = x

\* the while loop of merge_deduplicate; i and j count the consumed elements
RECURSIVE merge_deduplicate_loop(_, _, _, _, _, _)
merge_deduplicate_loop(left, right, i, j, result, ops) ==
  IF ~(i < Len(left) /\ j < Len(right))
  THEN [i |-> i, j |-> j, result |-> result, ops |-> ops]
  ELSE IF LastIs(result, right[j + 1])
  THEN merge_deduplicate_loop(left, right, i, j + 1, result, Append(ops, "MergeRight"))
  ELSE IF left[i + 1] <= right[j + 1]
  THEN merge_deduplicate_loop(left, right, i + 1, j,
                              Append(result, left[i + 1]), Append(ops, "TakeLeft"))
  ELSE merge_deduplicate_loop(left, right, i, j + 1,
                              Append(result, right[j + 1]), Append(ops, "TakeRight"))

\* mutant: the elements left over after the loop are not taken
merge_deduplicate_no_tail(left, right, st) == [result |-> st.result, ops |-> st.ops]

\* after the loop: the rest of left, one MergeRight if the next right element
\* equals the last result, the rest of right
merge_deduplicate_tail(left, right, st) ==
  LET r1 == st.result \o SubSeq(left, st.i + 1, Len(left))
      o1 == st.ops \o Repeat("TakeLeft", Len(left) - st.i)
      m == st.j < Len(right) /\ LastIs(r1, right[st.j + 1])
      j2 == IF m THEN st.j + 1 ELSE st.j
      o2 == IF m THEN Append(o1, "MergeRight") ELSE o1
  IN [result |-> r1 \o SubSeq(right, j2 + 1, Len(right)),
      ops |-> o2 \o Repeat("TakeRight", Len(right) - j2)]

merge_deduplicate(left, right) ==
  merge_deduplicate_tail(left, right, merge_deduplicate_loop(left, right, 0, 0, <<>>, <<>>))

\* operators/merge_deduplicate.rs: the same loop under the comparator C
RECURSIVE MergeDeduplicate_loop(_, _, _, _, _, _, _)
MergeDeduplicate_loop(c, left, right, i, j, result, ops) ==
  IF ~(i < Len(left) /\ j < Len(right))
  THEN [i |-> i, j |-> j, result |-> result, ops |-> ops]
  ELSE IF LastIs(result, right[j + 1])
  THEN MergeDeduplicate_loop(c, left, right, i, j + 1, result, Append(ops, "MergeRight"))
  ELSE IF CmpEq(c, left[i + 1], right[j + 1])
  THEN MergeDeduplicate_loop(c, left, right, i + 1, j,
                             Append(result, left[i + 1]), Append(ops, "TakeLeft"))
  ELSE MergeDeduplicate_loop(c, left, right, i, j + 1,
                             Append(result, right[j + 1]), Append(ops, "TakeRight"))

MergeDeduplicate_merge_deduplicate(c, left, right) ==
  merge_deduplicate_tail(left, right,
                         MergeDeduplicate_loop(c, left, right, 0, 0, <<>>, <<>>))

\* merge_drop: TakeLeft / TakeRight emit the next left / right element,
\* MergeRight skips the next right element
RECURSIVE merge_drop_loop(_, _, _, _, _, _)
merge_drop_loop(left, right, ops, i, j, result) ==
  IF ops = <<>> THEN result
  ELSE CASE Head(ops) = "TakeLeft" ->
              merge_drop_loop(left, right, Tail(ops), i + 1, j, Append(result, left[i + 1]))
         [] Head(ops) = "TakeRight" ->
              merge_drop_loop(left, right, Tail(ops), i, j + 1, Append(result, right[j + 1]))
         [] Head(ops) = "MergeRight" ->
              merge_drop_loop(left, right, Tail(ops), i, j + 1, result)

merge_drop(left, right, ops) == merge_drop_loop(left, right, ops, 0, 0, <<>>)

\* mutant: the run loop is an if, so a run stops after one element
RunEndOne(s, i, max, elem) == IF i < max /\ s[i + 1] = elem THEN i + 1 ELSE i

\* while i < max && elem == s[i] { i += 1 }: the index the run of elem ends at
RECURSIVE RunEnd(_, _, _, _)
RunEnd(s, i, max, elem) ==
  IF i < max /\ s[i + 1] = elem THEN RunEnd(s, i + 1, max, elem) ELSE i

\* partition, third loop: remaining elements on right
RECURSIVE partition_right(_, _, _, _, _, _)
partition_right(left, right, limit, i, j, result) ==
  IF j < Len(right) /\ i + j < limit
  THEN LET j2 == RunEnd(right, j, Len(right), right[j + 1])
       IN partition_right(left, right, limit, i, j2,
                          Append(result, [left |-> 0, right |-> j2 - j]))
  ELSE result

\* partition, second loop: remaining elements on left
RECURSIVE partition_left(_, _, _, _, _, _)
partition_left(left, right, limit, i, j, result) ==
  IF i < Len(left) /\ i + j < limit
  THEN LET i2 == RunEnd(left, i, Len(left), left[i + 1])
       IN partition_left(left, right, limit, i2, j,
                         Append(result, [left |-> i2 - i, right |-> 0]))
  ELSE partition_right(left, right, limit, i, j, result)

\* partition, first loop: runs of the smaller head element on both sides
RECURSIVE partition_both(_, _, _, _, _, _)
partition_both(left, right, limit, i, j, result) ==
  IF i < Len(left) /\ j < Len(right) /\ i + j < limit
  THEN LET elem == IF left[i + 1] <= right[j + 1] THEN left[i + 1] ELSE right[j + 1]
           i2 == RunEnd(left, i, Len(left), elem)
           j2 == RunEnd(right, j, Len(right), elem)
       IN partition_both(left, right, limit, i2, j2,
                         Append(result, [left |-> i2 - i, right |-> j2 - j]))
  ELSE partition_left(left, right, limit, i, j, result)

partition(left, right, limit) == partition_both(left, right, limit, 0, 0, <<>>)

\* subpartition, the while loop inside one group
RECURSIVE subpartition_group(_, _, _, _, _, _, _)
subpartition_group(left, right, i, j, i_max, j_max, result) ==
  IF i < i_max \/ j < j_max
  THEN LET elem == IF i < i_max /\ (j = j_max \/ left[i + 1] <= right[j + 1])
                   THEN left[i + 1] ELSE right[j + 1]
           i2 == RunEnd(left, i, i_max, elem)
           j2 == RunEnd(right, j, j_max, elem)
       IN subpartition_group(left, right, i2, j2, i_max, j_max,
                             Append(result, [left |-> i2 - i, right |-> j2 - j]))
  ELSE result

\* subpartition, the for loop over the groups
RECURSIVE subpartition_groups(_, _, _, _, _, _)
subpartition_groups(partitioning, left, right, i, j, result) ==
  IF partitioning = <<>> THEN result
  ELSE LET group == Head(partitioning)
       IN subpartition_groups(Tail(partitioning), left, right,
                              i + group.left, j + group.right,
                              subpartition_group(left, right, i, j,
                                                 i + group.left, j + group.right, result))

subpartition(partitioning, left, right) ==
  subpartition_groups(partitioning, left, right, 0, 0, <<>>)

\* merge_deduplicate_partitioned, the inner for loop: n iterations left in
\* the group, last is <<>> (None) or <<x>> (Some(x))
RECURSIVE merge_deduplicate_partitioned_group(_, _, _, _, _, _, _, _, _, _)
merge_deduplicate_partitioned_group(left, right, i, j, i_max, j_max, n, last, result, ops) ==
  IF n = 0 THEN [result |-> result, ops |-> ops, i |-> i, j |-> j]
  ELSE IF j < j_max /\ last = <<right[j + 1]>>
  THEN merge_deduplicate_partitioned_group(left, right, i, j + 1, i_max, j_max, n - 1,
                                           last, result, Append(ops, "MergeRight"))
  ELSE IF i < i_max /\ (j >= j_max \/ left[i + 1] <= right[j + 1])
  THEN merge_deduplicate_partitioned_group(left, right, i + 1, j, i_max, j_max, n - 1,
                                           <<left[i + 1]>>, Append(result, left[i + 1]),
                                           Append(ops, "TakeLeft"))
  ELSE merge_deduplicate_partitioned_group(left, right, i, j + 1, i_max, j_max, n - 1,
                                           <<right[j + 1]>>, Append(result, right[j + 1]),
                                           Append(ops, "TakeRight"))

\* merge_deduplicate_partitioned, the for loop over the groups; i and j carry
\* over from one group to the next, and trace records them, with the number
\* of ops and of results, at the end of every group
RECURSIVE merge_deduplicate_partitioned_groups(_, _, _, _, _, _, _, _)
merge_deduplicate_partitioned_groups(partitioning, left, right, i, j, result, ops, trace) ==
  IF partitioning = <<>> THEN [result |-> result, ops |-> ops, trace |-> trace]
  ELSE LET group == Head(partitioning)
           g == merge_deduplicate_partitioned_group(left, right, i, j, i + group.left,
                                                    j + group.right, group.left + group.right,
                                                    <<>>, result, ops)
       IN merge_deduplicate_partitioned_groups(
            Tail(partitioning), left, right, g.i, g.j, g.result, g.ops,
            Append(trace, [i |-> g.i, j |-> g.j, ops |-> Len(g.ops),
                           result |-> Len(g.result)]))

\* mutant: the two columns are merged as one group
merge_deduplicate_partitioned_whole(partitioning, left, right) ==
  merge_deduplicate_partitioned_groups(<<[left |-> Len(left), right |-> Len(right)]>>,
                                       left, right, 0, 0, <<>>, <<>>, <<>>)

merge_deduplicate_partitioned(partitioning, left, right) ==
  merge_deduplicate_partitioned_groups(partitioning, left, right, 0, 0, <<>>, <<>>, <<>>)

\* mutant: the while loop does not test the limit
RECURSIVE merge_sort_loop_unlimited(_, _, _, _, _, _, _, _)
merge_sort_loop_unlimited(c, left, right, limit, i, j, result, ops) ==
  IF i < Len(left) /\ j < Len(right)
  THEN IF Cmp(c, left[i + 1], right[j + 1])
       THEN merge_sort_loop_unlimited(c, left, right, limit, i + 1, j,
                                      Append(result, left[i + 1]), Append(ops, TRUE))
       ELSE merge_sort_loop_unlimited(c, left, right, limit, i, j + 1,
                                      Append(result, right[j + 1]), Append(ops, FALSE))
  ELSE [i |-> i, j |-> j, result |-> result, ops |-> ops]

\* merge_sort, the while loop: take left when C::cmp(left[i], right[j])
RECURSIVE merge_sort_loop(_, _, _, _, _, _, _, _)
merge_sort_loop(c, left, right, limit, i, j, result, ops) ==
  IF i < Len(left) /\ j < Len(right) /\ i + j < limit
  THEN IF Cmp(c, left[i + 1], right[j + 1])
       THEN merge_sort_loop(c, left, right, limit, i + 1, j,
                            Append(result, left[i + 1]), Append(ops, TRUE))
       ELSE merge_sort_loop(c, left, right, limit, i, j + 1,
                            Append(result, right[j + 1]), Append(ops, FALSE))
  ELSE [i |-> i, j |-> j, result |-> result, ops |-> ops]

\* mutant: the tail is not cut at the limit
SliceToEnd(s, from, to) == SubSeq(s, from + 1, Len(s))

\* s[from..to] of Rust (0-based, to exclusive)
Slice(s, from, to) == SubSeq(s, from + 1, to)

\* merge_sort: after the loop the two tails, each cut at the limit
merge_sort(c, left, right, limit) ==
  LET st == merge_sort_loop(c, left, right, limit, 0, 0, <<>>, <<>>)
      l == Slice(left, st.i, Min2(Len(left), limit - st.j))
      r == Slice(right, st.j, Min2(Len(right), limit - st.i))
  IN [result |-> st.result \o l \o r,
      ops |-> st.ops \o Repeat(TRUE, Len(l)) \o Repeat(FALSE, Len(r)),
      i |-> st.i, j |-> st.j]

\* mutant: the Merge operator takes right on equal keys
MergeTakesLeftStrict(c, l, r) == IF c = "CmpLessThan" THEN l < r ELSE l > r

\* operators/merge.rs line 64: the test that takes the left element
MergeTakesLeft(c, l, r) == CmpEq(c, l, r)

\* operators/merge.rs, merge: the while loop
RECURSIVE Merge_merge_loop(_, _, _, _, _, _, _, _)
Merge_merge_loop(c, left, right, limit, i, j, result, ops) ==
  IF i < Len(left) /\ j < Len(right) /\ i + j < limit
  THEN IF MergeTakesLeft(c, left[i + 1], right[j + 1])
       THEN Merge_merge_loop(c, left, right, limit, i + 1, j,
                             Append(result, left[i + 1]), Append(ops, 1))
       ELSE Merge_merge_loop(c, left, right, limit, i, j + 1,
                             Append(result, right[j + 1]), Append(ops, 0))
  ELSE [i |-> i, j |-> j, result |-> result, ops |-> ops]

\* operators/merge.rs, merge
Merge_merge(c, left, right, limit) ==
  LET st == Merge_merge_loop(c, left, right, limit, 0, 0, <<>>, <<>>)
      l == Slice(left, st.i, Min2(Len(left), limit - st.j))
      r == Slice(right, st.j, Min2(Len(right), limit - st.i))
  IN [result |-> st.result \o l \o r,
      ops |-> st.ops \o Repeat(1, Len(l)) \o Repeat(0, Len(r)),
      i |-> st.i, j |-> st.j]

\* merge: replay a boolean ops stream on another column
RECURSIVE merge_loop(_, _, _, _, _, _)
merge_loop(left, right, ops, i, j, result) ==
  IF ops = <<>> THEN result
  ELSE IF Head(ops)
  THEN merge_loop(left, right, Tail(ops), i + 1, j, Append(result, left[i + 1]))
  ELSE merge_loop(left, right, Tail(ops), i, j + 1, Append(result, right[j + 1]))

merge(left, right, ops) == merge_loop(left, right, ops, 0, 0, <<>>)

\* Aggregator::combine_i64
Aggregators == {"Sum", "Count", "Min", "Max"}
combine_i64(aggregator, a, b) ==
  CASE aggregator = "Sum" -> a + b
    [] aggregator = "Count" -> a + b
    [] aggregator = "Min" -> Min2(a, b)
    [] aggregator = "Max" -> Max2(a, b)

\* merge_aggregate: MergeRight folds the next right value into the last result
RECURSIVE merge_aggregate_loop(_, _, _, _, _, _, _)
merge_aggregate_loop(left, right, ops, aggregator, i, j, result) ==
  IF ops = <<>> THEN result
  ELSE CASE Head(ops) = "TakeLeft" ->
              merge_aggregate_loop(left, right, Tail(ops), aggregator, i + 1, j,
                                   Append(result, left[i + 1]))
         [] Head(ops) = "TakeRight" ->
              merge_aggregate_loop(left, right, Tail(ops), aggregator, i, j + 1,
                                   Append(result, right[j + 1]))
         [] Head(ops) = "MergeRight" ->
              merge_aggregate_loop(left, right, Tail(ops), aggregator, i, j + 1,
                                   [result EXCEPT ![Len(result)] =
                                      combine_i64(aggregator, @, right[j + 1])])

\* mutant: MergeRight drops the right value instead of folding it in
merge_aggregate_drop(left, right, ops, aggregator) == merge_drop(left, right, ops)

merge_aggregate(left, right, ops, aggregator) ==
  merge_aggregate_loop(left, right, ops, aggregator, 0, 0, <<>>)

\* usize::MAX
UsizeMax == 2147483647

\* mutant: the partitioning by the first column is not refined
SubpartitionNone(partitioning, g1, g2, from, to) == partitioning

\* combine lines 90-98: subpartition by the group-by columns from..to (1-based)
RECURSIVE SubpartitionCols(_, _, _, _, _)
SubpartitionCols(partitioning, g1, g2, from, to) ==
  IF from > to THEN partitioning
  ELSE SubpartitionCols(subpartition(partitioning, g1[from], g2[from]), g1, g2, from + 1, to)

\* TypedVec::extend(other, count): the first count elements of other appended
Extend(col1, col2, count) == col1 \o SubSeq(col2, 1, count)

\* an Option is <<>> (None) or <<x>> (Some(x)); a BatchResult is a record
\* [group_by, sort_by, desc, select, aggregators, level, batch_count]
combine(batch1, batch2, limit) ==
  IF batch1.group_by # <<>> /\ batch2.group_by # <<>>
  THEN LET g1 == batch1.group_by[1]
           g2 == batch2.group_by[1]
           last == Len(g1)
           single == merge_deduplicate(g1[1], g2[1])
           partitioning == SubpartitionCols(partition(g1[1], g2[1], UsizeMax),
                                            g1, g2, 2, last - 1)
           md == merge_deduplicate_partitioned(partitioning, g1[last], g2[last])
           ops == IF Len(g1) = 1 THEN single.ops ELSE md.ops
           group_by_cols ==
             IF Len(g1) = 1 THEN <<single.result>>
             ELSE [n \in 1..last |-> IF n < last THEN merge_drop(g1[n], g2[n], ops)
                                     ELSE md.result]
           aggregates == [n \in 1..Len(batch1.aggregators) |->
                            merge_aggregate(batch1.select[n], batch2.select[n], ops,
                                            batch1.aggregators[n])]
       IN [ok |-> TRUE, ops |-> ops,
           batch |-> [group_by |-> <<group_by_cols>>, sort_by |-> <<>>,
                      desc |-> batch1.desc, select |-> aggregates,
                      aggregators |-> batch1.aggregators, level |-> batch1.level + 1,
                      batch_count |-> batch1.batch_count + batch2.batch_count]]
  ELSE IF batch1.group_by = <<>> /\ batch2.group_by = <<>>
  THEN IF batch1.sort_by # <<>>
       THEN LET index == batch1.sort_by[1] + 1
                ms == merge_sort(IF batch1.desc THEN "CmpGreaterThan" ELSE "CmpLessThan",
                                 batch1.select[index], batch2.select[index], limit)
                result == [n \in 1..Min2(Len(batch1.select), Len(batch2.select)) |->
                             IF n = index THEN ms.result
                             ELSE merge(batch1.select[n], batch2.select[n], ms.ops)]
            IN [ok |-> TRUE, ops |-> ms.ops,
                batch |-> [group_by |-> <<>>, sort_by |-> batch1.sort_by,
                           desc |-> batch1.desc, select |-> result,
                           aggregators |-> <<>>, level |-> batch1.level + 1,
                           batch_count |-> batch1.batch_count + batch2.batch_count]]
       ELSE LET result == [n \in 1..Min2(Len(batch1.select), Len(batch2.select)) |->
                             LET col1 == batch1.select[n]
                                 col2 == batch2.select[n]
                                 count == IF Len(col1) >= limit THEN 0
                                          ELSE Min2(Len(col2), limit - Len(col1))
                             IN Extend(col1, col2, count)]
            IN [ok |-> TRUE, ops |-> <<>>,
                batch |-> [group_by |-> <<>>, sort_by |-> <<>>,
                           desc |-> batch1.desc, select |-> result,
                           aggregators |-> <<>>, level |-> batch1.level + 1,
                           batch_count |-> batch1.batch_count + batch2.batch_count]]
  ELSE [ok |-> FALSE, error |-> "FatalError"]

(* ---------------------- batch merging calls ---------------------------- *)
Keys == 1..MaxKey

\* adjacent elements are in the comparator's order, strictly or not
Ordered(c, s, strict) ==
  \A n \in 1..(Len(s) - 1) :
    IF strict THEN s[n] # s[n + 1] /\ Cmp(c, s[n], s[n + 1]) ELSE Cmp(c, s[n], s[n + 1])

\* the vectors of keys that are sorted under c
SortedVecs(c, strict) == {v \in SeqsUpTo(Keys, MaxLen) : Ordered(c, v, strict)}

CallMergeDeduplicate ==
  /\ cmb.op = "none"
  /\ \E left \in SortedVecs("CmpLessThan", TRUE), right \in SortedVecs("CmpLessThan", TRUE) :
       LET out == merge_deduplicate(left, right)
       IN cmb' = [op |-> "merge_deduplicate", c |-> "CmpLessThan", left |-> left,
                  right |-> right, result |-> out.result, ops |-> out.ops]
  /\ UNCHANGED <<dbVars, bufVars, grp, taskVars, ips, lk>>

CallMergeDeduplicateOperator ==
  /\ cmb.op = "none"
  /\ \E c \in Comparators :
       \E left \in SortedVecs(c, TRUE), right \in SortedVecs(c, TRUE) :
         LET out == MergeDeduplicate_merge_deduplicate(c, left, right)
         IN cmb' = [op |-> "MergeDeduplicate", c |-> c, left |-> left,
                    right |-> right, result |-> out.result, ops |-> out.ops]
  /\ UNCHANGED <<dbVars, bufVars, grp, taskVars, ips, lk>>

CallMergeSort ==
  /\ cmb.op = "none"
  /\ \E c \in Comparators, limit \in 0..MaxLimit :
       \E left \in SortedVecs(c, FALSE), right \in SortedVecs(c, FALSE) :
         LET out == merge_sort(c, left, right, limit)
         IN cmb' = [op |-> "merge_sort", c |-> c, left |-> left, right |-> right,
                    limit |-> limit, result |-> out.result, ops |-> out.ops,
                    i |-> out.i, j |-> out.j]
  /\ UNCHANGED <<dbVars, bufVars, grp, taskVars, ips, lk>>

\* the Merge operator; its ops are bytes, 1 for left
CallMerge ==
  /\ cmb.op = "none"
  /\ \E c \in Comparators, limit \in 0..MaxLimit :
       \E left \in SortedVecs(c, FALSE), right \in SortedVecs(c, FALSE) :
         LET out == Merge_merge(c, left, right, limit)
         IN cmb' = [op |-> "Merge", c |-> c, left |-> left, right |-> right,
                    limit |-> limit, result |-> out.result,
                    ops |-> [n \in 1..Len(out.ops) |-> out.ops[n] = 1],
                    i |-> out.i, j |-> out.j]
  /\ UNCHANGED <<dbVars, bufVars, grp, taskVars, ips, lk>>

NextCombine ==
  \/ CallMergeDeduplicate
  \/ CallMergeDeduplicateOperator
  \/ CallMergeSort
  \/ CallMerge

SpecCombine == Init /\ [][NextCombine]_vars

\* the group-by key tuples of k columns, and their lexicographic code
Tuples(k) == [1..k -> 1..MaxGroupKey]
RECURSIVE Code(_)
Code(t) == IF t = <<>> THEN 0 ELSE Code(SubSeq(t, 1, Len(t) - 1)) * (MaxGroupKey + 1) + t[Len(t)]

\* the tuples of S in lexicographic order
RECURSIVE SortLex(_)
SortLex(S) ==
  IF S = {} THEN <<>>
  ELSE LET t == CHOOSE x \in S : \A y \in S : Code(x) <= Code(y)
       IN <<t>> \o SortLex(S \ {t})

\* the sorted key-tuple lists a partial result of a k-column group-by can hold
GroupRows(k) == {SortLex(S) : S \in {T \in SUBSET Tuples(k) : Cardinality(T) <= MaxRows}}

\* the BatchResult of a group-by over k columns with one aggregate
GroupBatch(k, rows, vals, aggregator) ==
  [group_by |-> <<[n \in 1..k |-> [r \in 1..Len(rows) |-> rows[r][n]]]>>, sort_by |-> <<>>, desc |-> FALSE,
   select |-> <<vals>>, aggregators |-> <<aggregator>>, level |-> 0, batch_count |-> 1]

\* the BatchResult of a sort query: the sort column and a column that names
\* each row by its side and position
SortBatch(keys, side, index, desc) ==
  [group_by |-> <<>>, sort_by |-> <<index>>, desc |-> desc,
   select |-> <<keys, [n \in 1..Len(keys) |-> 10 * side + n]>>,
   aggregators |-> <<>>, level |-> 0, batch_count |-> 1]

\* the BatchResult of a select query with len rows
SelectBatch(len, side) ==
  [group_by |-> <<>>, sort_by |-> <<>>, desc |-> FALSE,
   select |-> <<[n \in 1..len |-> 10 * side + n], [n \in 1..len |-> side]>>,
   aggregators |-> <<>>, level |-> 0, batch_count |-> 1]

\* one group-by column with every aggregator and every assignment of the
\* values 1, 2 and 5
AggregateArgs ==
  {[batch1 |-> GroupBatch(1, a[1], a[2], a[5]), batch2 |-> GroupBatch(1, a[3], a[4], a[5]),
    limit |-> MaxLimit] :
     a \in {x \in GroupRows(1) \X SeqsUpTo({1, 2, 5}, MaxGroupKey)
                  \X GroupRows(1) \X SeqsUpTo({1, 2, 5}, MaxGroupKey) \X Aggregators :
              Len(x[1]) = Len(x[2]) /\ Len(x[3]) = Len(x[4])}}

\* k group-by columns with a count per group
GroupByArgs(k) ==
  {[batch1 |-> GroupBatch(k, a[1], [n \in 1..Len(a[1]) |-> 1], "Count"),
    batch2 |-> GroupBatch(k, a[2], [n \in 1..Len(a[2]) |-> 1], "Count"),
    limit |-> MaxLimit] : a \in GroupRows(k) \X GroupRows(k)}

SortArgs ==
  {[batch1 |-> SortBatch(a[1], 1, 0, a[3] = "CmpGreaterThan"),
    batch2 |-> SortBatch(a[2], 2, 0, a[3] = "CmpGreaterThan"), limit |-> a[4]] :
     a \in {x \in SeqsUpTo(Keys, MaxLen) \X SeqsUpTo(Keys, MaxLen) \X Comparators
                  \X (0..MaxLimit) :
              Ordered(x[3], x[1], FALSE) /\ Ordered(x[3], x[2], FALSE)}}

SelectArgs ==
  {[batch1 |-> SelectBatch(a[1], 1), batch2 |-> SelectBatch(a[2], 2), limit |-> a[3]] :
     a \in (0..MaxLen) \X (0..MaxLen) \X (0..MaxLimit)}

\* one batch of every shape, paired with every other
ShapeArgs ==
  LET Shapes == {GroupBatch(1, <<<<1>>, <<2>>>>, <<1, 1>>, "Count"), SelectBatch(2, 1),
                 SortBatch(<<1, 2>>, 1, 0, FALSE), SortBatch(<<1, 2>>, 1, 1, FALSE)}
  IN {[batch1 |-> a[1], batch2 |-> a[2], limit |-> MaxLimit] :
        a \in {x \in Shapes \X Shapes : x[1] # x[2]}}

CallCombine(args) ==
  /\ cmb.op = "none"
  /\ cmb' = [op |-> "combine", batch1 |-> args.batch1, batch2 |-> args.batch2,
             limit |-> args.limit, out |-> combine(args.batch1, args.batch2, args.limit)]
  /\ UNCHANGED <<dbVars, bufVars, grp, taskVars, ips, lk>>

CallCombineAggregate == \E args \in AggregateArgs : CallCombine(args)
CallCombineGroupBy == \E k \in 2..3 : \E args \in GroupByArgs(k) : CallCombine(args)
CallCombineSort == \E args \in SortArgs : CallCombine(args)
CallCombineSelect == \E args \in SelectArgs : CallCombine(args)
CallCombineShapes == \E args \in ShapeArgs : CallCombine(args)

\* the partial results of one aggregate over k group-by columns, with
\* sorted distinct keys and values from Vals
OrderBatches(k, Vals, aggregator) ==
  {GroupBatch(k, x[1], x[2], aggregator) :
     x \in {y \in GroupRows(k) \X SeqsUpTo(Vals, MaxGroupKey) : Len(y[1]) = Len(y[2])}}

\* combine of three partial results in both orders and both groupings, over
\* one group-by column (values 1, 2, 5) and over two (values 1, 5)
CallCombineOrder ==
  /\ cmb.op = "none"
  /\ \E k \in 1..2, aggregator \in Aggregators :
       \E a, b, c \in OrderBatches(k, IF k = 1 THEN {1, 2, 5} ELSE {1, 5}, aggregator) :
         LET ab == combine(a, b, MaxLimit)
             ba == combine(b, a, MaxLimit)
             bc == combine(b, c, MaxLimit)
         IN cmb' = [op |-> "combine_order", a |-> a, b |-> b, c |-> c,
                    ab |-> ab, ba |-> ba,
                    ab_c |-> combine(ab.batch, c, MaxLimit),
                    a_bc |-> combine(a, bc.batch, MaxLimit)]
  /\ UNCHANGED <<dbVars, bufVars, grp, taskVars, ips, lk>>

SpecCombineOrder == Init /\ [][CallCombineOrder]_vars

\* merge_deduplicate_partitioned as combine calls it (lines 82-107) on the
\* group-by columns of two partial results with two or three columns
CallMergeDeduplicatePartitioned ==
  /\ cmb.op = "none"
  /\ \E k \in 2..3 : \E rows1, rows2 \in GroupRows(k) :
       LET g1 == GroupBatch(k, rows1, <<>>, "Count").group_by[1]
           g2 == GroupBatch(k, rows2, <<>>, "Count").group_by[1]
           partitioning == SubpartitionCols(partition(g1[1], g2[1], UsizeMax),
                                            g1, g2, 2, k - 1)
       IN cmb' = [op |-> "merge_deduplicate_partitioned", partitioning |-> partitioning,
                  first1 |-> g1[1], first2 |-> g2[1], left |-> g1[k], right |-> g2[k],
                  out |-> merge_deduplicate_partitioned(partitioning, g1[k], g2[k])]
  /\ UNCHANGED <<dbVars, bufVars, grp, taskVars, ips, lk>>

SpecPartitioned == Init /\ [][CallMergeDeduplicatePartitioned]_vars

\* the first two columns of a partial result: up to MaxRows key pairs in
\* lexicographic order, a pair possibly repeated (a later column tells
\* the rows apart)
RECURSIVE SortedPairs(_)
SortedPairs(n) ==
  IF n = 0 THEN {<<>>}
  ELSE LET shorter == SortedPairs(n - 1)
       IN shorter \cup {Append(rows, t) : rows \in {r \in shorter : Len(r) = n - 1},
                                           t \in Tuples(2)}

PairRows == {rows \in SortedPairs(MaxRows) :
               \A n \in 1..(Len(rows) - 1) : Code(rows[n]) <= Code(rows[n + 1])}

\* partition on the first columns with a limit, and subpartition of its
\* result on the second columns
CallPartition ==
  /\ cmb.op = "none"
  /\ \E rows1, rows2 \in PairRows, limit \in (0..MaxLimit) \cup {UsizeMax} :
       LET left == [r \in 1..Len(rows1) |-> rows1[r][1]]
           right == [r \in 1..Len(rows2) |-> rows2[r][1]]
           left2 == [r \in 1..Len(rows1) |-> rows1[r][2]]
           right2 == [r \in 1..Len(rows2) |-> rows2[r][2]]
           partitioning == partition(left, right, limit)
       IN cmb' = [op |-> "partition", left |-> left, right |-> right, limit |-> limit,
                  left2 |-> left2, right2 |-> right2, partitioning |-> partitioning,
                  sub |-> subpartition(partitioning, left2, right2)]
  /\ UNCHANGED <<dbVars, bufVars, grp, taskVars, ips, lk>>

SpecPartition == Init /\ [][CallPartition]_vars

NextCombineCall ==
  \/ CallCombineAggregate
  \/ CallCombineGroupBy
  \/ CallCombineSort
  \/ CallCombineSelect
  \/ CallCombineShapes

SpecCombineCall == Init /\ [][NextCombineCall]_vars

(* ------------------ engine/operators/hashmap_grouping.rs ----------------- *)
\* mutant: grouping_key is kept from batch to batch
ClearNever(stream, grouping) == grouping

\* execute lines 40-42
ClearIfStream(stream, grouping) == IF stream THEN <<>> ELSE grouping

\* execute lines 43-48: map.entry(i).or_insert_with(push to unique)
RECURSIVE HashMapGrouping_execute_loop(_, _, _, _)
HashMapGrouping_execute_loop(input, map, unique, grouping) ==
  IF input = <<>> THEN [map |-> map, unique |-> unique, grouping |-> grouping]
  ELSE LET i == Head(input)
       IN IF i \in DOMAIN map
          THEN HashMapGrouping_execute_loop(Tail(input), map, unique,
                                            Append(grouping, map[i]))
          ELSE LET pushed == Append(unique, i)
                   id == Len(pushed) - 1
               IN HashMapGrouping_execute_loop(Tail(input), map @@ (i :> id), pushed,
                                               Append(grouping, id))

\* execute(stream, scratchpad) on the next batch of the input buffer. A
\* streaming stage is executed once per batch with stream = true, any other
\* stage once over the whole partition with stream = false.
HashMapGrouping_execute ==
  /\ grp.batches < MaxGroupingBatches
  /\ \E stream \in BOOLEAN, input \in SeqsUpTo(Keys, MaxBatchRows) :
       /\ grp.batches > 0 => (stream /\ grp.stream)
       /\ LET st == HashMapGrouping_execute_loop(input, grp.map, grp.unique,
                      ClearIfStream(stream, grp.grouping_key))
          IN grp' = [map |-> st.map, unique |-> st.unique, grouping_key |-> st.grouping,
                     cardinality |-> Len(st.unique), input |-> input,
                     batches |-> grp.batches + 1, stream |-> stream,
                     all |-> grp.all \o input]
  /\ UNCHANGED <<dbVars, bufVars, cmb, taskVars, ips, lk>>

NextGrouping == HashMapGrouping_execute

SpecGrouping == Init /\ [][NextGrouping]_vars

(* ----------------- scheduler/inner_locustdb.rs: task queue --------------- *)
\* mutant: every task is put back at the front of the queue
RequeueAlways(queue, task, multithreaded) == <<task>> \o queue

\* mutant: no task is put back
RequeueNever(queue, task, multithreaded) == queue

\* await_task lines 160-162: a multithreaded task stays at the front
Requeue(queue, task, multithreaded) ==
  IF multithreaded THEN <<task>> \o queue ELSE queue

\* await_task lines 156-167: pop until a task that is not completed; the
\* result is the queue left behind and the task returned (0 for None)
RECURSIVE await_task_pop(_)
await_task_pop(queue) ==
  IF queue = <<>> THEN [queue |-> <<>>, task |-> 0]
  ELSE LET task == Head(queue)
       IN IF sched[task].completed THEN await_task_pop(Tail(queue))
          ELSE [queue |-> Requeue(Tail(queue), task, sched[task].multithreaded),
                task |-> task]

\* mutant: notify_one wakes nobody
NotifyNobody(workers) == {workers}

\* idle_queue.notify_one(): one of the workers waiting, if any, is woken and
\* goes on to take the lock again
NotifyOne(workers) ==
  IF \A w \in Workers : workers[w].pc # "wait" THEN {workers}
  ELSE {[workers EXCEPT ![w].pc = "lock"] : w \in {x \in Workers : workers[x].pc = "wait"}}

\* mutant: stop() wakes one waiting worker only
NotifyOneOnly(workers) == CHOOSE woken \in NotifyOne(workers) : TRUE

\* idle_queue.notify_all()
NotifyAllIdle(workers) ==
  [w \in Workers |-> IF workers[w].pc = "wait" THEN [workers[w] EXCEPT !.pc = "lock"]
                     ELSE workers[w]]

\* schedule(task): push_back under the task_queue lock, then notify_one
schedule ==
  /\ Len(sched) < MaxTasks
  /\ queue_lock = 0
  /\ \E multithreaded \in BOOLEAN :
       /\ sched' = Append(sched, [multithreaded |-> multithreaded, completed |-> FALSE])
       /\ task_queue' = Append(task_queue, Len(sched) + 1)
  /\ wk' \in NotifyOne(wk)
  /\ UNCHANGED <<dbVars, bufVars, cmb, grp, ips, lk, running, handed, queue_lock, stop_pc>>

\* worker_loop calling await_task: the whole body runs under the task_queue
\* lock; on an empty queue the worker waits on idle_queue while running
await_task(w) ==
  /\ wk[w].pc = "loop"
  /\ running
  /\ queue_lock = 0
  /\ task_queue # <<>>
  /\ Len(handed) < MaxHanded
  /\ LET popped == await_task_pop(task_queue)
     IN /\ task_queue' = popped.queue
        /\ IF popped.task = 0
           THEN UNCHANGED <<wk, handed>>
           ELSE /\ wk' = [wk EXCEPT ![w] = [pc |-> "execute", task |-> popped.task]]
                /\ handed' = Append(handed, popped.task)
  /\ UNCHANGED <<dbVars, bufVars, cmb, grp, ips, lk, running, sched, queue_lock, stop_pc>>

\* task.execute() in worker_loop: a task that is not multithreaded is done
\* when execute returns, a multithreaded one when its last share is done
Task_execute(w) ==
  /\ wk[w].pc = "execute"
  /\ \E completed \in BOOLEAN :
       /\ ~sched[wk[w].task].multithreaded => completed
       /\ sched' = [sched EXCEPT ![wk[w].task].completed = @ \/ completed]
  /\ wk' = [wk EXCEPT ![w] = IdleWorker]
  /\ UNCHANGED <<dbVars, bufVars, cmb, grp, ips, lk, task_queue, running, handed, queue_lock,
                 stop_pc>>

\* stop(): running becomes false and every waiting worker is woken
stop ==
  /\ running
  /\ running' = FALSE
  /\ UNCHANGED <<dbVars, bufVars, cmb, grp, ips, lk, task_queue, sched, wk, handed, queue_lock,
                 stop_pc>>

NextTasks ==
  \/ schedule
  \/ \E w \in Workers : await_task(w)
  \/ \E w \in Workers : Task_execute(w)
  \/ stop

SpecTasks == Init /\ [][NextTasks]_vars

\* The same threads one step at a time, for what happens around stop().
\* The thread calling stop() holds the lock under the id NumWorkers + 1.
StopThread == NumWorkers + 1

\* worker_loop line 140: the test of running
worker_loop_check(w) ==
  /\ wk[w].pc = "loop"
  /\ wk' = [wk EXCEPT ![w].pc = IF running THEN "lock" ELSE "exited"]
  /\ UNCHANGED <<dbVars, bufVars, cmb, grp, ips, lk, task_queue, running, sched, handed,
                 queue_lock, stop_pc>>

\* await_task line 149, and the end of idle_queue.wait: take the lock
await_task_lock(w) ==
  /\ wk[w].pc = "lock"
  /\ queue_lock = 0
  /\ queue_lock' = w
  /\ wk' = [wk EXCEPT ![w].pc = "locked"]
  /\ UNCHANGED <<dbVars, bufVars, cmb, grp, ips, lk, task_queue, running, sched, handed, stop_pc>>

\* await_task lines 150-168 with the lock held: on an empty queue return None
\* when not running, else go on to wait; on a queue with tasks pop, notify
\* and return
await_task_locked(w) ==
  /\ wk[w].pc = "locked"
  /\ IF task_queue = <<>>
     THEN /\ IF running
             THEN wk' = [wk EXCEPT ![w].pc = "before_wait"] /\ UNCHANGED queue_lock
             ELSE wk' = [wk EXCEPT ![w].pc = "loop"] /\ queue_lock' = 0
          /\ UNCHANGED task_queue
     ELSE LET popped == await_task_pop(task_queue)
              returned == [wk EXCEPT ![w] = IF popped.task = 0 THEN IdleWorker
                                            ELSE [pc |-> "execute", task |-> popped.task]]
          IN /\ task_queue' = popped.queue
             /\ wk' \in (IF popped.task # 0 /\ popped.queue # <<>>
                         THEN NotifyOne(returned) ELSE {returned})
             /\ queue_lock' = 0
  /\ UNCHANGED <<dbVars, bufVars, cmb, grp, ips, lk, running, sched, handed, stop_pc>>

\* await_task line 154: idle_queue.wait gives up the lock and blocks
await_task_wait(w) ==
  /\ wk[w].pc = "before_wait"
  /\ wk' = [wk EXCEPT ![w].pc = "wait"]
  /\ queue_lock' = 0
  /\ UNCHANGED <<dbVars, bufVars, cmb, grp, ips, lk, task_queue, running, sched, handed, stop_pc>>

\* a condition variable may wake a waiter that nobody notified
spurious_wakeup(w) ==
  /\ wk[w].pc = "wait"
  /\ wk' = [wk EXCEPT ![w].pc = "lock"]
  /\ UNCHANGED <<dbVars, bufVars, cmb, grp, ips, lk, task_queue, running, sched, handed,
                 queue_lock, stop_pc>>

\* stop line 133: the first store to running, without the lock
stop_store ==
  /\ stop_pc = "idle"
  /\ running' = FALSE
  /\ stop_pc' = "stored"
  /\ UNCHANGED <<dbVars, bufVars, cmb, grp, ips, lk, task_queue, sched, wk, handed, queue_lock>>

\* stop line 134: take the task_queue lock
stop_lock ==
  /\ stop_pc = "stored"
  /\ queue_lock = 0
  /\ queue_lock' = StopThread
  /\ stop_pc' = "locked"
  /\ UNCHANGED <<dbVars, bufVars, cmb, grp, ips, lk, task_queue, running, sched, wk, handed>>

\* stop lines 135-137: store again, notify_all, drop the guard
stop_notify ==
  /\ stop_pc = "locked"
  /\ running' = FALSE
  /\ wk' = NotifyAllIdle(wk)
  /\ queue_lock' = 0
  /\ stop_pc' = "done"
  /\ UNCHANGED <<dbVars, bufVars, cmb, grp, ips, lk, task_queue, sched, handed>>

NextStop ==
  \/ schedule
  \/ \E w \in Workers : worker_loop_check(w)
  \/ \E w \in Workers : await_task_lock(w)
  \/ \E w \in Workers : await_task_locked(w)
  \/ \E w \in Workers : await_task_wait(w)
  \/ \E w \in Workers : spurious_wakeup(w)
  \/ \E w \in Workers : Task_execute(w)
  \/ stop_store
  \/ stop_lock
  \/ stop_notify

\* every thread that can take a step takes one in the end, and every task's
\* execute returns; nothing is assumed about schedule calls or spurious wakeups
SpecStop ==
  /\ Init
  /\ [][NextStop]_vars
  /\ \A w \in Workers :
       /\ WF_vars(worker_loop_check(w))
       /\ WF_vars(await_task_lock(w))
       /\ WF_vars(await_task_locked(w))
       /\ WF_vars(await_task_wait(w))
       /\ WF_vars(Task_execute(w))
  /\ WF_vars(stop_lock)
  /\ WF_vars(stop_notify)

\* execute returns and the task reports completed() from then on
Task_completes(w) == Task_execute(w) /\ sched'[wk[w].task].completed

\* the database while it runs: nobody calls stop() or drop_pending_tasks()
NextQueue ==
  \/ schedule
  \/ \E w \in Workers : worker_loop_check(w)
  \/ \E w \in Workers : await_task_lock(w)
  \/ \E w \in Workers : await_task_locked(w)
  \/ \E w \in Workers : await_task_wait(w)
  \/ \E w \in Workers : spurious_wakeup(w)
  \/ \E w \in Workers : Task_execute(w)

\* every worker that can take a step takes one in the end, every execute
\* returns, and a task that is executed again and again completes in the end;
\* nothing is assumed about schedule calls or spurious wakeups
SpecQueueLive ==
  /\ Init
  /\ [][NextQueue]_vars
  /\ \A w \in Workers :
       /\ WF_vars(worker_loop_check(w))
       /\ WF_vars(await_task_lock(w))
       /\ WF_vars(await_task_locked(w))
       /\ WF_vars(await_task_wait(w))
       /\ WF_vars(Task_execute(w))
       /\ SF_vars(Task_completes(w))

(* --------------- scheduler/inner_locustdb.rs: subpartition --------------- *)
\* The characters of a column name, one of each class: an ASCII lower-case
\* letter, a digit, the underscore, an upper-case letter and a lower-case
\* letter outside ASCII (two bytes in UTF-8).
Chars == {"a", "1", "_", "A", "eacute"}
is_alphanumeric(ch) == ch \in {"a", "1", "A", "eacute"}
is_lowercase(ch) == ch \in {"a", "eacute"}
\* str::len counts bytes
StrLen(name) == Len(name) + Cardinality({n \in 1..Len(name) : name[n] = "eacute"})

SafeNameLen == 64

\* line 738: (c.is_alphanumeric() && c.is_lowercase()) || c == '_'
SafeChar(ch) == (is_alphanumeric(ch) /\ is_lowercase(ch)) \/ ch = "_"

\* lines 735-738
is_column_name_filesystem_safe(first_col) ==
  /\ StrLen(first_col) <= SafeNameLen
  /\ \A n \in 1..Len(first_col) : SafeChar(first_col[n])

\* lines 739-749: "x" + name, or the SHA-256 digest of the names fed to the
\* hasher one after the other, which is the digest of their concatenation
subpartition_key(column_names) ==
  IF Len(column_names) = 1 /\ is_column_name_filesystem_safe(column_names[1])
  THEN [kind |-> "x", name |-> column_names[1]]
  ELSE [kind |-> "sha256", of |-> Concat(column_names)]

\* lines 703-713
create_subpartition(acc) ==
  [subpartition_metadata |->
     Append(acc.subpartition_metadata,
            [column_names |-> [n \in 1..Len(acc.subpartition) |-> acc.subpartition[n].name],
             bytes |-> acc.bytes]),
   subpartitions |-> Append(acc.subpartitions, acc.subpartition),
   subpartition |-> <<>>,
   bytes |-> 0]

\* line 717
Overflows(bytes, size_bytes, max_partition_size_bytes) ==
  bytes + size_bytes > max_partition_size_bytes

\* lines 715-722
RECURSIVE subpartition_loop(_, _, _)
subpartition_loop(columns, max_partition_size_bytes, acc) ==
  IF columns = <<>> THEN acc
  ELSE LET column == Head(columns)
           acc1 == IF Overflows(acc.bytes, column.size, max_partition_size_bytes)
                   THEN create_subpartition(acc) ELSE acc
       IN subpartition_loop(Tail(columns), max_partition_size_bytes,
                            [acc1 EXCEPT !.subpartition = Append(@, column),
                                         !.bytes = @ + column.size])

\* subpartition(opts, columns): the metadata and the column groups, or a panic
\* of the unwrap at line 734 on a subpartition without columns
InnerLocustDB_subpartition(max_partition_size_bytes, columns) ==
  LET acc == create_subpartition(
               subpartition_loop(columns, max_partition_size_bytes,
                                 [subpartition_metadata |-> <<>>, subpartitions |-> <<>>,
                                  subpartition |-> <<>>, bytes |-> 0]))
      count == Len(acc.subpartitions)
  IN IF count = 1
     THEN [ok |-> TRUE, subpartitions |-> acc.subpartitions,
           metadata |-> <<[subpartition_key |-> [kind |-> "all"],
                           size_bytes |-> acc.subpartition_metadata[1].bytes]>>]
     ELSE IF \E n \in 1..count : acc.subpartition_metadata[n].column_names = <<>>
     THEN [ok |-> FALSE, panic |-> "unwrap on None"]
     ELSE [ok |-> TRUE, subpartitions |-> acc.subpartitions,
           metadata |-> [n \in 1..count |->
              [subpartition_key |-> subpartition_key(acc.subpartition_metadata[n].column_names),
               size_bytes |-> acc.subpartition_metadata[n].bytes]]]

\* column lists: names "a", "aa", ... with every size, and single bytes under
\* every short name and two long ones
SizedColumns ==
  UNION {{[n \in 1..k |-> [name |-> [m \in 1..n |-> "a"], size |-> sizes[n]]] :
            sizes \in [1..k -> 0..MaxColBytes]} : k \in 0..MaxColumns}
NamedColumns ==
  LET Names == (SeqsUpTo(Chars, MaxNameLen) \ {<<>>})
                 \cup {[m \in 1..SafeNameLen |-> "a"], [m \in 1..(SafeNameLen + 1) |-> "a"]}
  IN {[n \in 1..Len(names) |-> [name |-> names[n], size |-> 1]] : names \in SeqsUpTo(Names, 2)}

CallSubpartition ==
  /\ cmb.op = "none"
  /\ \E columns \in SizedColumns \cup NamedColumns, max \in 0..MaxPartitionBytes :
       cmb' = [op |-> "subpartition", columns |-> columns,
               max_partition_size_bytes |-> max,
               out |-> InnerLocustDB_subpartition(max, columns)]
  /\ UNCHANGED <<dbVars, bufVars, grp, taskVars, ips, lk>>

NextSubpartition == CallSubpartition

SpecSubpartition == Init /\ [][NextSubpartition]_vars

(* ------------- scheduler/inner_locustdb.rs: the three locks -------------- *)
\* One step of a call as far as the locks go: lock/unlock of a mutex m, a
\* Condvar::wait on the guard of m (the mutex is released and locked again at
\* instruction `to`, where the loop condition is tested again; a wait may
\* return spuriously), read/unread and write/unwrite of the tables RwLock, and
\* a branch that goes on or jumps to instruction `to`.
Ins(i, m, to) == [i |-> i, m |-> m, to |-> to]

\* mutant: wal_flush reads the tables before it locks wal_size
wal_flush_locks_tables_first ==
  << Ins("read", "tables", 0),
     Ins("lock", "wal_size", 0),
     Ins("unlock", "wal_size", 0),
     Ins("unread", "tables", 0) >>

\* ingest_efficient, lines 185-287
ingest_efficient_locks ==
  << Ins("lock", "wal_size", 0),     \* 187
     Ins("wait", "wal_size", 1),     \* 188-191
     Ins("read", "tables", 0),       \* 555 (create_if_empty_no_ingest, called at 195)
     Ins("unread", "tables", 0),     \* 557
     Ins("branch", "exists", 8),     \* 558
     Ins("write", "tables", 0),      \* 560
     Ins("unwrite", "tables", 0),    \* 565
     Ins("branch", "for", 3),        \* 194: the next table of events
     Ins("read", "tables", 0),       \* 233
     Ins("unread", "tables", 0),     \* 280: the guard of this iteration is dropped
     Ins("branch", "for", 9),        \* 232: the next table of events
     Ins("unlock", "wal_size", 0) >> \* 287: the guard is dropped on return

\* ingest_single, lines 179-183, with create_if_empty, lines 578-607, and the
\* ingest_single("_meta_tables", ..) it calls at line 592
ingest_single_locks ==
  << Ins("read", "tables", 0),       \* 580
     Ins("unread", "tables", 0),     \* 582
     Ins("branch", "exists", 10),    \* 583
     Ins("write", "tables", 0),      \* 585
     Ins("unwrite", "tables", 0),    \* 590
     Ins("read", "tables", 0),       \* 580, for _meta_tables
     Ins("unread", "tables", 0),     \* 582
     Ins("read", "tables", 0),       \* 181, for _meta_tables
     Ins("unread", "tables", 0),     \* 183
     Ins("read", "tables", 0),       \* 181
     Ins("unread", "tables", 0) >>   \* 183

\* wal_flush, the freeze block, lines 306-326
wal_flush_locks ==
  << Ins("lock", "wal_size", 0),     \* 308
     Ins("read", "tables", 0),       \* 314-317
     Ins("unread", "tables", 0),     \* 320: the guard is a temporary of the statement
     Ins("unlock", "wal_size", 0) >> \* 326

\* schedule, lines 171-177
schedule_locks == << Ins("lock", "task_queue", 0), Ins("unlock", "task_queue", 0) >>

\* await_task, lines 148-169
await_task_locks ==
  << Ins("lock", "task_queue", 0),     \* 149
     Ins("wait", "task_queue", 1),     \* 150-155
     Ins("unlock", "task_queue", 0) >> \* 152, 165, 168: the guard is dropped on return

\* stop, lines 129-137
stop_locks == << Ins("lock", "task_queue", 0), Ins("unlock", "task_queue", 0) >>

\* drop_pending_tasks, lines 529-532
drop_pending_tasks_locks ==
  << Ins("lock", "task_queue", 0), Ins("unlock", "task_queue", 0) >>

\* enforce_mem_limit, lines 609-641, one round of its loop
enforce_mem_limit_locks ==
  << Ins("read", "tables", 0),       \* 612
     Ins("unread", "tables", 0),     \* 617
     Ins("branch", "if", 7),         \* 618, 620, 626: nothing (more) to evict
     Ins("read", "tables", 0),       \* 623, after lru.evict() at 621
     Ins("unread", "tables", 0),     \* 625
     Ins("branch", "while", 3) >>    \* 620

\* evict_cache, lines 667-674
evict_cache_locks ==
  << Ins("read", "tables", 0),       \* 668
     Ins("unread", "tables", 0) >>   \* 674, after the loop over lru.evict()

LockOps == {"ingest_efficient", "ingest_single", "wal_flush", "schedule", "await_task",
            "stop", "drop_pending_tasks", "enforce_mem_limit", "evict_cache"}

Program(op) ==
  CASE op = "ingest_efficient" -> ingest_efficient_locks
    [] op = "ingest_single" -> ingest_single_locks
    [] op = "wal_flush" -> wal_flush_locks
    [] op = "schedule" -> schedule_locks
    [] op = "await_task" -> await_task_locks
    [] op = "stop" -> stop_locks
    [] op = "drop_pending_tasks" -> drop_pending_tasks_locks
    [] op = "enforce_mem_limit" -> enforce_mem_limit_locks
    [] op = "evict_cache" -> evict_cache_locks

\* the instruction thread t is at, "none" outside a call and past its end
CurrentIns(l, t) ==
  IF l.pc[t].op = "none" \/ l.pc[t].at > Len(Program(l.pc[t].op))
  THEN Ins("none", "none", 0)
  ELSE Program(l.pc[t].op)[l.pc[t].at]

\* the lock states thread t can move to: Mutex::lock and RwLock::write wait
\* for the lock to be free, RwLock::read for no writer to hold it
Outcomes(l, t) ==
  LET p == l.pc[t]
      ins == CurrentIns(l, t)
      next == [l EXCEPT !.pc[t].at = p.at + 1]
  IN IF p.op = "none" THEN {[l EXCEPT !.pc[t] = [op |-> op, at |-> 1]] : op \in LockOps}
     ELSE IF ins.i = "none" THEN {[l EXCEPT !.pc[t] = [op |-> "none", at |-> 0]]}
     ELSE IF ins.i = "lock" THEN (IF l[ins.m] = 0 THEN {[next EXCEPT ![ins.m] = t]} ELSE {})
     ELSE IF ins.i = "unlock" THEN {[next EXCEPT ![ins.m] = 0]}
     ELSE IF ins.i = "wait" THEN {next, [l EXCEPT ![ins.m] = 0, !.pc[t].at = ins.to]}
     ELSE IF ins.i = "read"
       THEN (IF l.writer = 0 THEN {[next EXCEPT !.readers[t] = @ + 1]} ELSE {})
     ELSE IF ins.i = "unread" THEN {[next EXCEPT !.readers[t] = @ - 1]}
     ELSE IF ins.i = "write"
       THEN (IF l.writer = 0 /\ \A u \in LockThreads : l.readers[u] = 0
             THEN {[next EXCEPT !.writer = t]} ELSE {})
     ELSE IF ins.i = "unwrite" THEN {[next EXCEPT !.writer = 0]}
     ELSE {next, [l EXCEPT !.pc[t].at = ins.to]}

\* a thread enters a call, takes its next step, or returns
LockStep ==
  /\ \E t \in LockThreads : \E n \in Outcomes(lk, t) : lk' = n
  /\ UNCHANGED <<dbVars, bufVars, cmb, grp, taskVars, ips>>

SpecLocks == Init /\ [][LockStep]_vars

(* ----------------------------- stringpack.rs ---------------------------- *)
\* the width of an entry of data, u64 in the source
WordBits == OffsetBits + LenBits

\* string lengths around the largest the length field holds
StrLens == {0, 1, 2^LenBits - 1, 2^LenBits, 2^LenBits + 1}

\* (self.backing_store.len() << 24) + bytes.len(): the shift drops the bits
\* above the word
PackedSum(store_len, len) == ((store_len * (2^LenBits)) % (2^WordBits)) + len

\* iter lines 29-30: offset_len >> 24 and offset_len & 0x00ff_ffff
UnpackOffset(offset_len) == offset_len \div (2^LenBits)
UnpackLen(offset_len) == offset_len % (2^LenBits)

\* IndexedPackedStrings::push(elem) for a string of len bytes. The addition
\* wraps in a release build and panics in a debug build when it overflows.
IndexedPackedStrings_push ==
  /\ ~ips.panicked
  /\ Len(ips.data) < MaxPushes
  /\ \E len \in StrLens :
       LET sum == PackedSum(ips.backing_store, len)
       IN \/ ips' = [data |-> Append(ips.data, sum % (2^WordBits)),
                     backing_store |-> ips.backing_store + len,
                     pushed |-> Append(ips.pushed, [offset |-> ips.backing_store,
                                                    len |-> len]),
                     panicked |-> FALSE]
          \/ /\ sum >= 2^WordBits
             /\ ips' = [ips EXCEPT !.panicked = TRUE]
  /\ UNCHANGED <<dbVars, bufVars, cmb, grp, taskVars, lk>>

NextIndexed == IndexedPackedStrings_push

SpecIndexed == Init /\ [][NextIndexed]_vars

\* the byte that continues a length, and the amount it stands for
LenRun == 255

\* mutant: a length of exactly 255 is written as one byte
LenNeedsRunFrom256(len) == len > LenRun

\* PackedStrings::push line 62, PackedBytes::from_iterator line 126:
\* while len > 254
LenNeedsRun(len) == len > LenRun - 1

\* lines 61-66 and 125-130: the bytes that encode a length
RECURSIVE PushLen(_, _)
PushLen(data, len) ==
  IF LenNeedsRun(len) THEN PushLen(Append(data, 255), len - LenRun)
  ELSE Append(data, len)

\* PackedStrings::push(string)
PackedStrings_push(data, string) == PushLen(data, Len(string)) \o string

\* PackedStrings::from_iterator(strings).into_vec()
RECURSIVE PackedStrings_from_iterator(_, _)
PackedStrings_from_iterator(data, strings) ==
  IF strings = <<>> THEN data
  ELSE PackedStrings_from_iterator(PackedStrings_push(data, Head(strings)), Tail(strings))

\* PackedBytes::from_iterator(bytes).into_vec()
RECURSIVE PackedBytes_from_iterator(_, _)
PackedBytes_from_iterator(data, bytes) ==
  IF bytes = <<>> THEN data
  ELSE PackedBytes_from_iterator(PushLen(data, Len(Head(bytes))) \o Head(bytes), Tail(bytes))

\* lines 102-107 and 168-173: add up the run of 255s and the byte that ends
\* it; the result is the length and the index of the first byte after it.
\* data[index] past the end of the vector panics
RECURSIVE ReadLen(_, _, _)
ReadLen(data, index, len) ==
  IF index >= Len(data) THEN [panic |-> TRUE, len |-> len, index |-> index]
  ELSE IF data[index + 1] = 255 THEN ReadLen(data, index + 1, len + LenRun)
  ELSE [panic |-> FALSE, len |-> len + data[index + 1], index |-> index + 1]

\* lines 109-112 and 175-178: the element after its length; a slice that
\* runs past the end of the vector panics
ReadElem(data, read, items) ==
  IF read.panic \/ read.index + read.len > Len(data)
  THEN [panic |-> TRUE, items |-> items, index |-> read.index]
  ELSE [panic |-> FALSE,
        items |-> Append(items, Slice(data, read.index, read.index + read.len)),
        index |-> read.index + read.len]

\* StringPackerIterator::next, called until it returns None
RECURSIVE StringPackerIterator_collect(_, _, _)
StringPackerIterator_collect(data, curr_index, items) ==
  IF curr_index >= Len(data) THEN [panic |-> FALSE, items |-> items]
  ELSE LET elem == ReadElem(data, ReadLen(data, curr_index, 0), items)
       IN IF elem.panic THEN [panic |-> TRUE, items |-> elem.items]
          ELSE StringPackerIterator_collect(data, elem.index, elem.items)

\* PackedBytesIterator::next, called until it returns None
RECURSIVE PackedBytesIterator_collect(_, _, _)
PackedBytesIterator_collect(data, curr_index, items) ==
  IF ~(curr_index < Len(data)) THEN [panic |-> FALSE, items |-> items]
  ELSE LET elem == ReadElem(data, ReadLen(data, curr_index, 0), items)
       IN IF elem.panic THEN [panic |-> TRUE, items |-> elem.items]
          ELSE PackedBytesIterator_collect(data, elem.index, elem.items)

\* strings and byte blobs of the lengths around one and two runs; a string
\* is ASCII, a blob is filled with 0, 65 or 255
PackedLens == {0, 1, LenRun - 1, LenRun, LenRun + 1, 2 * LenRun - 1, 2 * LenRun}
Blobs(Fill) == {[i \in 1..len |-> fill] : len \in PackedLens, fill \in Fill}

CallPackedStrings ==
  /\ cmb.op = "none"
  /\ \E strings \in SeqsUpTo(Blobs({65}), MaxElems) :
       LET data == PackedStrings_from_iterator(<<>>, strings)
       IN cmb' = [op |-> "PackedStrings", elems |-> strings, data |-> data,
                  decoded |-> StringPackerIterator_collect(data, 0, <<>>)]
  /\ UNCHANGED <<dbVars, bufVars, grp, taskVars, ips, lk>>

CallPackedBytes ==
  /\ cmb.op = "none"
  /\ \E bytes \in SeqsUpTo(Blobs({0, 65, 255}), MaxElems) :
       LET data == PackedBytes_from_iterator(<<>>, bytes)
       IN cmb' = [op |-> "PackedBytes", elems |-> bytes, data |-> data,
                  decoded |-> PackedBytesIterator_collect(data, 0, <<>>)]
  /\ UNCHANGED <<dbVars, bufVars, grp, taskVars, ips, lk>>

NextPacked == CallPackedStrings \/ CallPackedBytes

SpecPacked == Init /\ [][NextPacked]_vars

Next ==
  \/ \E c \in Clients : IngestEfficient(c)
  \/ \E c \in Clients : IngestDirect(c)
  \/ WalFlush
  \/ CrashRestart

Spec == Init /\ [][Next]_vars

\* the steps of ingest_efficient when the storage calls return
IngestEfficientLive(c) ==
  \/ \E T \in (SUBSET UserTables) \ {{}} : IngestEfficientEnter(c, T)
  \/ IngestEfficientWake(c)
  \/ CreateCheck(c)
  \/ CreateInsert(c)
  \/ SpawnPersist(c)
  \/ PersistWalSegment(c)
  \/ ApplyTableBuffer(c)
  \/ JoinPersist(c)
  \/ NotifyReturn(c)

\* a step of a call that is under way (the caller is a running thread)
IngestEfficientStep(c) == InCall(c) /\ IngestEfficientLive(c)

NextLive ==
  \/ \E c \in Clients : IngestEfficientLive(c)
  \/ WalFlush

\* the database while it runs: the enforce_wal_limit thread and the threads
\* inside ingest_efficient are scheduled fairly, storage calls return
SpecLive ==
  /\ Init
  /\ [][NextLive]_vars
  /\ WF_vars(WalFlush)
  /\ \A c \in Clients : WF_vars(IngestEfficientStep(c))

\* the running database in which a compaction query may fail
NextFlushFail ==
  \/ NextLive
  \/ CompactFails

SpecFlushFail ==
  /\ Init
  /\ [][NextFlushFail]_vars
  /\ WF_vars(WalFlush)
  /\ \A c \in Clients : WF_vars(IngestEfficientStep(c))

(* ============================== claims ================================= *)
\* a row of table t is in a partition that the persisted metastore lists and
\* whose file is on disk with that content
RowInPersistedPartition(t, row) ==
  \E p \in meta_file.parts :
    /\ p.table = t
    /\ row \in Range(p.rows)
    /\ \E f \in partition_files : f.table = t /\ f.id = p.id /\ f.rows = p.rows

\* the batch has a WAL segment on disk at or above the persisted high-water mark
BatchInReplayedWal(b) == \E s \in ReplayedSegments : s.batch = b

\* every row of the batch is in a persisted partition
BatchInPersistedPartitions(data) ==
  \A t \in DOMAIN data : \A row \in Range(data[t]) : RowInPersistedPartition(t, row)

\* the ingest_efficient batches a restart brings back: from the replayed WAL
\* segments and from the partitions of the persisted metastore
RecoverableBatches ==
  ({s.batch : s \in ReplayedSegments}
     \cup {row.b : row \in UNION {Range(p.rows) : p \in meta_file.parts}}
     \cup {row.b : row \in UNION {Range(f.rows) : f \in partition_files}}) \ {0}

\* the rows of batch b that are in some table's memory (open or frozen buffer
\* or partition), whether or not the table is still in the tables map
BatchInMemory(b) ==
  \E o \in 1..Len(heap) : \E row \in Range(TableRows(heap[o])) : row.b = b

\* C1: at every point at which the process can crash, the rows of every
\* ingest_efficient call that has returned are recoverable: they are in a WAL
\* segment on disk at or above the persisted high-water mark, or in partitions
\* listed in the persisted metastore.
C1_AckedIsRecoverable ==
  \A a \in acked : BatchInReplayedWal(a.batch) \/ BatchInPersistedPartitions(a.data)

PartitionsOnDisk(ps) ==
  \A p \in ps : \E f \in partition_files : f.table = p.table /\ f.id = p.id

\* the persisted metastore is the one this wal_flush run wrote
MetastorePersisted == meta_file.hwm = fl.hi /\ meta_file = metastore

\* C3: in every wal_flush run the new partitions are persisted before a
\* compaction job runs, all compaction jobs are done before the metastore is
\* persisted, the metastore is persisted before a partition file is deleted,
\* and the orphaned partition files are deleted before a WAL segment is.
C3_FlushStepOrder ==
  [][crashes' = crashes =>
       /\ (fl'.compactions \subseteq fl.compactions /\ fl'.compactions # fl.compactions
             => PartitionsOnDisk(fl.new_partitions))
       /\ (meta_file' # meta_file
             => fl.compactions = {} /\ PartitionsOnDisk(fl.new_partitions)
                /\ fl.pc = "persist_metastore" /\ meta_file'.hwm = fl.hi)
       /\ ((\E f \in partition_files :
              ~\E g \in partition_files' : g.table = f.table /\ g.id = f.id)
             => MetastorePersisted)
       /\ (~(wal_files \subseteq wal_files')
             => /\ MetastorePersisted
                /\ \A f \in partition_files : <<f.table, f.id>> \notin fl.to_delete)
  ]_vars

\* a run with a compaction has persisted the metastore and deleted the
\* orphaned partitions and is about to delete its WAL segments
C3_Witness ==
  /\ fl.pc = "delete_wal"
  /\ fl.to_delete # {}
  /\ MetastorePersisted
  /\ \E s \in wal_files : fl.lo <= s.id /\ s.id < fl.hi

\* C4: an ingest_efficient call creates tables, persists its segment and
\* applies rows only while wal_size <= max_wal_size_bytes; while it waits on
\* the condition variable its batch is kept whole and nothing of it has been
\* persisted or applied.
C4_Backpressure ==
  \A c \in Clients :
    /\ thr[c].pc \in {"create", "insert", "apply", "join"} => wal_size <= MaxWalSizeBytes
    /\ thr[c].pc \in {"waiting", "woken"} =>
         /\ thr[c].batch # 0
         /\ DOMAIN thr[c].events # {}
         /\ \A t \in DOMAIN thr[c].events : thr[c].events[t] = <<DataRow(thr[c].batch)>>
         /\ thr[c].batch \notin persisted
         /\ ~BatchInMemory(thr[c].batch)

\* a call waits on the condition variable while the WAL is over its limit
C4_Witness ==
  \E c \in Clients : thr[c].pc = "waiting" /\ wal_size > MaxWalSizeBytes

C6_AckAfterPersistAndApply ==
  [][crashes' = crashes =>
       /\ \A c \in Clients :
            thr[c].pc = "notify" /\ thr'[c].pc # "notify" =>
              /\ thr[c].persist = "done"
              /\ thr[c].todo = {}
              /\ \E s \in wal_files : s.batch = thr[c].batch /\ s.data = thr[c].events
              /\ wal_size' = wal_size
              /\ \A d \in Clients : thr'[d].pc # "waiting"
       /\ (wal_size' > wal_size =>
             \E c \in Clients :
               /\ thr[c].pc = "join" /\ thr'[c].pc = "notify"
               /\ thr[c].persist = "done"
               /\ \E s \in wal_files : s.batch = thr[c].batch
               /\ wal_size' = wal_size + SegmentBytes(thr[c].events))
  ]_vars

\* a call has returned and its bytes are counted in wal_size
C6_Witness ==
  /\ wal_size > 0
  /\ \E a \in acked : \E s \in wal_files : s.batch = a.batch /\ wal_size >= SegmentBytes(s.data)

\* C7: if persisting the segment of a batch fails, no table's open buffer
\* holds a row of the failed batch (and the batch has no segment).
C7_FailedBatchNotApplied ==
  \A c \in Clients :
    thr[c].pc = "panicked" /\ thr[c].persist = "failed" =>
      /\ thr[c].batch \notin persisted
      /\ \A o \in 1..Len(heap) : \A row \in Range(heap[o].buffer) : row.b # thr[c].batch

\* C8: while wal_flush is in its freeze phase no ingest_efficient call is past
\* the mutex; when the last table is frozen every WAL segment on disk is either
\* in the recorded range with all its rows in the frozen buffers, or outside
\* the range with none of its rows there; before the guard is dropped wal_size
\* is 0 and no ingester is left waiting.
C8_FreezePhaseAtomic ==
  /\ fl.pc \in {"freeze", "unlock"} =>
       \A c \in Clients : thr[c].pc \notin {"create", "insert", "apply", "join", "notify"}
  /\ fl.pc = "unlock" =>
       /\ wal_size = 0
       /\ \A c \in Clients : thr[c].pc # "waiting"
       /\ \A s \in wal_files :
            LET frozen(t, row) ==
                  \E o \in fl.tables : heap[o].name = t /\ row \in Range(heap[o].frozen)
            IN \/ /\ fl.lo <= s.id /\ s.id < fl.hi
                  /\ \A t \in DOMAIN s.data : \A row \in Range(s.data[t]) : frozen(t, row)
               \/ /\ ~(fl.lo <= s.id /\ s.id < fl.hi)
                  /\ \A t \in DOMAIN s.data : \A row \in Range(s.data[t]) : ~frozen(t, row)

\* the number of rows of _meta_tables that name table t
MetaRowCount(t) ==
  LET rows == TableRows(heap[tables[MetaTables]])
  IN Cardinality({i \in 1..Len(rows) : rows[i].n = t})

\* C9: after any sequence of push_row, push_typed_cols and push_untyped_cols
\* every column of the Buffer has length buffer.length, and when the Buffer has
\* columns buffer.length is the longest column's length.
C9_BufferInvariant ==
  /\ \A n \in DOMAIN buf.cols : Len(buf.cols[n]) = buf.length
  /\ DOMAIN buf.cols # {} => buf.length = MaxOf({Len(buf.cols[n]) : n \in DOMAIN buf.cols})

\* C10: when no ingest call is in progress, _meta_tables holds exactly one row
\* for every user table that was created.
C10_OneMetaRowPerTable ==
  (crashes = 0 /\ \A c \in Clients : ~InCall(c)) =>
    \A t \in UserTables : tables[t] # 0 => MetaRowCount(t) = 1

\* the number of entries of ops that equal op
CountOp(ops, op) == Cardinality({n \in 1..Len(ops) : ops[n] = op})

\* C11: merge_deduplicate (the combiner's and the MergeDeduplicate operator's)
\* on two vectors that are strictly increasing under the comparator returns a
\* vector that is strictly increasing and holds exactly the values of left and
\* right.
C11_MergeDeduplicateSortedUnion ==
  cmb.op \in {"merge_deduplicate", "MergeDeduplicate"} =>
    /\ Ordered(cmb.c, cmb.result, TRUE)
    /\ Range(cmb.result) = Range(cmb.left) \cup Range(cmb.right)

\* two inputs that share a key and each hold a key of their own
C11_Witness ==
  /\ cmb.op = "merge_deduplicate"
  /\ Range(cmb.left) \cap Range(cmb.right) # {}
  /\ Range(cmb.left) \ Range(cmb.right) # {}
  /\ Range(cmb.right) \ Range(cmb.left) # {}

\* C12: the ops stream of merge_deduplicate has one op per input element, as
\* many MergeRight ops as elements were dropped, and replaying it (merge_drop)
\* against the inputs gives the output and consumes both inputs.
C12_OpsAccounting ==
  cmb.op \in {"merge_deduplicate", "MergeDeduplicate"} =>
    /\ Len(cmb.ops) = Len(cmb.left) + Len(cmb.right)
    /\ CountOp(cmb.ops, "MergeRight") = Len(cmb.left) + Len(cmb.right) - Len(cmb.result)
    /\ CountOp(cmb.ops, "TakeLeft") = Len(cmb.left)
    /\ CountOp(cmb.ops, "TakeRight") + CountOp(cmb.ops, "MergeRight") = Len(cmb.right)
    /\ merge_drop(cmb.left, cmb.right, cmb.ops) = cmb.result

\* a call whose ops stream holds all three ops
C12_Witness ==
  /\ cmb.op = "MergeDeduplicate"
  /\ CountOp(cmb.ops, "MergeRight") > 0
  /\ CountOp(cmb.ops, "TakeRight") > 0
  /\ CountOp(cmb.ops, "TakeLeft") > 1

\* the call is combine on two group-by batches of at least k columns
GroupByCall(k) ==
  /\ cmb.op = "combine"
  /\ cmb.batch1.group_by # <<>> /\ cmb.batch2.group_by # <<>>
  /\ Len(cmb.batch1.group_by[1]) >= k

\* the key tuples of the rows of a group-by column list
RowsOf(cols) == [r \in 1..Len(cols[1]) |-> [n \in 1..Len(cols) |-> cols[n][r]]]
Codes(cols) == [r \in 1..Len(cols[1]) |-> Code(RowsOf(cols)[r])]

\* C13: for 2 and 3 group-by columns, on inputs sorted lexicographically with
\* distinct key tuples, the group-by columns and the ops stream of combine are
\* those of merge_deduplicate on the lexicographic compound key.
C13_PartitionedEqualsCompound ==
  GroupByCall(2) =>
    LET single == merge_deduplicate(Codes(cmb.batch1.group_by[1]),
                                    Codes(cmb.batch2.group_by[1]))
    IN /\ cmb.out.ok
       /\ cmb.out.ops = single.ops
       /\ Codes(cmb.out.batch.group_by[1]) = single.result

\* three columns, the two sides share a tuple and differ in the middle column
\* inside one value of the first
C13_Witness ==
  /\ GroupByCall(3)
  /\ \E r1 \in Range(RowsOf(cmb.batch1.group_by[1])) :
       \E r2 \in Range(RowsOf(cmb.batch2.group_by[1])) :
         r1[1] = r2[1] /\ r1[2] # r2[2] /\ r1[3] = r2[3]
  /\ Range(RowsOf(cmb.batch1.group_by[1])) \cap Range(RowsOf(cmb.batch2.group_by[1])) # {}

\* the values of the rows of a batch whose key tuple is key
ValuesOf(batch, key) ==
  LET rows == RowsOf(batch.group_by[1])
  IN {batch.select[1][r] : r \in {q \in 1..Len(rows) : rows[q] = key}}

RECURSIVE SumSeq(_)
SumSeq(v) == IF v = <<>> THEN 0 ELSE Head(v) + SumSeq(Tail(v))

\* C14: every output group of an aggregation holds the aggregator's fold over
\* the left and right rows of that key; with Sum and Count the output adds up
\* to the sum of left plus the sum of right.
C14_MergeAggregateFolds ==
  GroupByCall(1) =>
    LET aggregator == cmb.batch1.aggregators[1]
        keys == RowsOf(cmb.out.batch.group_by[1])
        output == cmb.out.batch.select[1]
    IN /\ Len(output) = Len(keys)
       /\ \A g \in 1..Len(keys) :
            LET l == ValuesOf(cmb.batch1, keys[g])
                r == ValuesOf(cmb.batch2, keys[g])
            IN \/ l # {} /\ r # {} /\ \E x \in l, y \in r :
                    output[g] = combine_i64(aggregator, x, y)
               \/ l # {} /\ r = {} /\ output[g] \in l
               \/ l = {} /\ r # {} /\ output[g] \in r
       /\ aggregator \in {"Sum", "Count"} =>
            SumSeq(output) = SumSeq(cmb.batch1.select[1]) + SumSeq(cmb.batch2.select[1])

\* a Min over a group present on both sides where the right value is smaller
C14_Witness ==
  /\ GroupByCall(1)
  /\ cmb.batch1.aggregators = <<"Min">>
  /\ \E g \in 1..Len(cmb.out.batch.select[1]) :
       LET key == RowsOf(cmb.out.batch.group_by[1])[g]
       IN /\ ValuesOf(cmb.batch1, key) = {5}
          /\ ValuesOf(cmb.batch2, key) = {2}
          /\ cmb.out.batch.select[1][g] = 2

\* the call is one of the two sorted merges
SortedMergeCall == cmb.op \in {"merge_sort", "Merge"}

\* the same merge without a limit
CompleteMerge ==
  IF cmb.op = "merge_sort"
  THEN merge_sort(cmb.c, cmb.left, cmb.right, Len(cmb.left) + Len(cmb.right)).result
  ELSE Merge_merge(cmb.c, cmb.left, cmb.right, Len(cmb.left) + Len(cmb.right)).result

\* C15: merge_sort and the Merge operator's merge on sorted inputs return a
\* sorted output of min(len(left) + len(right), limit) elements, the first
\* that many of the complete merge, with one op per output element.
C15_SortedMergePrefix ==
  SortedMergeCall =>
    LET n == Min2(Len(cmb.left) + Len(cmb.right), cmb.limit)
        i == CountOp(cmb.ops, TRUE)
        j == CountOp(cmb.ops, FALSE)
    IN /\ Len(cmb.result) = n
       /\ Len(cmb.ops) = n
       /\ Ordered(cmb.c, cmb.result, FALSE)
       /\ cmb.result = SubSeq(CompleteMerge, 1, n)
       /\ Len(CompleteMerge) = Len(cmb.left) + Len(cmb.right)
       /\ Ordered(cmb.c, CompleteMerge, FALSE)
       \* the output is the first i of left and the first j of right, and
       \* nothing left out sorts before its last element
       /\ i <= Len(cmb.left) /\ j <= Len(cmb.right)
       /\ cmb.result = merge(SubSeq(cmb.left, 1, i), SubSeq(cmb.right, 1, j), cmb.ops)
       /\ n > 0 =>
            /\ \A p \in (i + 1)..Len(cmb.left) : Cmp(cmb.c, cmb.result[n], cmb.left[p])
            /\ \A p \in (j + 1)..Len(cmb.right) : Cmp(cmb.c, cmb.result[n], cmb.right[p])

\* a merge cut by the limit with elements of both sides in it and left out
C15_Witness ==
  /\ SortedMergeCall
  /\ cmb.limit < Len(cmb.left) + Len(cmb.right)
  /\ CountOp(cmb.ops, TRUE) \in 1..(Len(cmb.left) - 1)
  /\ CountOp(cmb.ops, FALSE) \in 1..(Len(cmb.right) - 1)

SelectCall ==
  /\ cmb.op = "combine"
  /\ cmb.batch1.group_by = <<>> /\ cmb.batch2.group_by = <<>>
  /\ cmb.batch1.sort_by = <<>> /\ cmb.batch2.sort_by = <<>>

\* C17: in the select case every result column holds the first
\* min(limit, len(left) + len(right)) rows of the left column followed by the
\* right column, whatever the input lengths.
C17_SelectConcatTruncated ==
  SelectCall =>
    /\ cmb.out.ok
    /\ \A n \in 1..Len(cmb.batch1.select) :
         LET concat == cmb.batch1.select[n] \o cmb.batch2.select[n]
         IN cmb.out.batch.select[n] = SubSeq(concat, 1, Min2(cmb.limit, Len(concat)))

\* the shapes of the two batches do not match
MismatchedShapes ==
  \/ (cmb.batch1.group_by = <<>>) # (cmb.batch2.group_by = <<>>)
  \/ cmb.batch1.sort_by # cmb.batch2.sort_by

\* C18: combine on two batches of mismatched shapes (group_by on one side
\* only, or different sort_by) returns a fatal error and no BatchResult.
C18_MismatchIsFatal ==
  (cmb.op = "combine" /\ MismatchedShapes) => ~cmb.out.ok

\* the distinct values of s in the order of their first occurrence
RECURSIVE FirstOccurrences(_)
FirstOccurrences(s) ==
  IF s = <<>> THEN <<>>
  ELSE LET front == FirstOccurrences(SubSeq(s, 1, Len(s) - 1))
       IN IF s[Len(s)] \in Range(front) THEN front ELSE Append(front, s[Len(s)])

HandedSingle ==
  LET Single(t) == ~sched[t].multithreaded
  IN SelectSeq(handed, Single)

\* C20: the tasks that are not multithreaded are handed to workers in the
\* order of their schedule() calls, and none of them is handed twice.
C20_TaskQueueFifo ==
  \A p \in 1..Len(HandedSingle) : \A q \in (p + 1)..Len(HandedSingle) :
    HandedSingle[p] < HandedSingle[q]

\* two single-threaded tasks were handed out around a multithreaded task that
\* was handed out twice
C20_Witness ==
  /\ Len(HandedSingle) = 2
  /\ \E p \in 1..Len(handed) : \E q \in (p + 1)..Len(handed) :
       handed[p] = handed[q] /\ HandedSingle[1] < handed[p] /\ handed[p] < HandedSingle[2]

\* a multithreaded task that was handed out and is not completed is at the
\* front of the queue and is what the next await_task returns
RequeuedAtFront ==
  /\ \A t \in Range(handed) :
       (sched[t].multithreaded /\ ~sched[t].completed) =>
         /\ task_queue # <<>> /\ Head(task_queue) = t
         /\ await_task_pop(task_queue).task = t
  /\ \A w \in Workers : wk[w].pc = "execute" => wk[w].task \in Range(handed)

\* what await_task hands out was not completed when popped, only a
\* multithreaded task is left in the queue, and nothing enters the queue
HandsOutLiveTask ==
  handed' # handed =>
    LET t == handed'[Len(handed')]
    IN /\ ~sched[t].completed
       /\ \A n \in 1..Len(task_queue') :
            task_queue'[n] = t \/ task_queue'[n] \in Range(task_queue)
       /\ sched[t].multithreaded <=> (task_queue' # <<>> /\ Head(task_queue') = t)
       /\ \A n \in 1..Len(task_queue) :
            sched[task_queue[n]].completed /\ (\A m \in 1..n : task_queue[m] # t)
              => task_queue[n] \notin Range(task_queue')

\* C21: a multithreaded task is put back at the front of the queue when it is
\* handed out, so until it is completed every idle worker is handed the same
\* task; a task that is completed when popped is dropped and handed to nobody.
C21_MultithreadedRequeued == []RequeuedAtFront /\ [][HandsOutLiveTask]_vars

\* two workers execute the same multithreaded task at the same time, after a
\* completed task was dropped from the queue
C21_Witness ==
  /\ wk[1].pc = "execute" /\ wk[2].pc = "execute"
  /\ wk[1].task = wk[2].task
  /\ ~sched[wk[1].task].completed
  /\ \E t \in 1..Len(sched) :
       sched[t].multithreaded /\ sched[t].completed /\ t \notin Range(task_queue)

\* no worker is inside worker_loop any more
AllWorkersLeft == \A w \in Workers : wk[w].pc = "exited"

\* a worker that executes a task leaves that state only by the return of
\* execute, back at the top of worker_loop
ExecuteRunsToEnd ==
  \A w \in Workers :
    (wk[w].pc = "execute" /\ wk'[w] # wk[w]) =>
      /\ wk'[w] = IdleWorker
      /\ ~sched[wk[w].task].multithreaded => sched'[wk[w].task].completed

\* C22: once stop() has been called every worker leaves worker_loop, wherever
\* it was at the time of the call, and a task that is executing is run to its
\* end.
C22_StopEndsWorkers ==
  /\ (stop_pc # "idle") ~> AllWorkersLeft
  /\ [][ExecuteRunsToEnd]_vars

\* stop() has stored running = false while one worker waits on idle_queue,
\* the other has seen running = true with the lock held and has not waited
\* yet; afterwards both have left
C22_Witness ==
  /\ stop_pc = "stored"
  /\ wk[1].pc = "wait"
  /\ wk[2].pc = "before_wait"

\* C23: when a step of a wal_flush run has failed, the run ends and
\* enforce_wal_limit is back in its loop, from where the flush is tried again.
C23_FlushFailureRecovers == (fl.panicked # {}) ~> (fl.pc = "poll")

\* the combined heap bytes of a group of columns
RECURSIVE HeapBytes(_)
HeapBytes(columns) ==
  IF columns = <<>> THEN 0 ELSE Head(columns).size + HeapBytes(Tail(columns))

\* C24: every subpartition returned holds columns of at most
\* max_partition_size_bytes combined, and its size_bytes is that combined
\* size.
C24_SubpartitionWithinCap ==
  (cmb.op = "subpartition" /\ cmb.out.ok) =>
    \A n \in 1..Len(cmb.out.subpartitions) :
      /\ HeapBytes(cmb.out.subpartitions[n]) <= cmb.max_partition_size_bytes
      /\ cmb.out.metadata[n].size_bytes = HeapBytes(cmb.out.subpartitions[n])

\* the name matches ^[a-z0-9_]{1,64}$
MatchesSafeName(name) ==
  /\ Len(name) \in 1..64
  /\ \A n \in 1..Len(name) : name[n] \in {"a", "1", "_"}

\* C25: subpartition returns keys for every column list: "all" for a single
\* subpartition, else "x" + name for a subpartition of one column whose name
\* matches ^[a-z0-9_]{1,64}$ and the SHA-256 of the concatenated names for
\* every other.
C25_SubpartitionKeyRule ==
  cmb.op = "subpartition" =>
    /\ cmb.out.ok
    /\ \A n \in 1..Len(cmb.out.subpartitions) :
         LET names == [m \in 1..Len(cmb.out.subpartitions[n]) |->
                         cmb.out.subpartitions[n][m].name]
         IN cmb.out.metadata[n].subpartition_key =
              IF Len(cmb.out.subpartitions) = 1 THEN [kind |-> "all"]
              ELSE IF Len(names) = 1 /\ MatchesSafeName(names[1])
              THEN [kind |-> "x", name |-> names[1]]
              ELSE [kind |-> "sha256", of |-> Concat(names)]

\* what a column of a batch of `rows` rows holds, row by row
BatchColumn(rows, v) ==
  [i \in 1..rows |->
     IF v.kind = "Dense" THEN (IF i <= v.len THEN Val ELSE Null)
     ELSE IF (i - 1) \in Range(v.data) THEN Val ELSE Null]

C27_PushRejectsOverflow ==
  \A n \in 1..Len(ips.data) :
    /\ ips.pushed[n].offset < 2^OffsetBits
    /\ ips.pushed[n].len < 2^LenBits
    /\ UnpackOffset(ips.data[n]) = ips.pushed[n].offset
    /\ UnpackLen(ips.data[n]) = ips.pushed[n].len

\* the encoding the format prescribes: per element a run of len \div 255
\* bytes of 255, one byte len % 255, then the element
RECURSIVE PackedFormat(_)
PackedFormat(elems) ==
  IF elems = <<>> THEN <<>>
  ELSE LET len == Len(Head(elems))
       IN [i \in 1..(len \div 255) |-> 255] \o <<len % 255>> \o Head(elems)
            \o PackedFormat(Tail(elems))

\* C28: decoding the encoding of a sequence of strings or byte blobs gives
\* back the sequence, and every length is written as a run of 255-valued
\* bytes ended by one byte below 255, adding up to the length.
C28_PackedRoundTrip ==
  cmb.op \in {"PackedStrings", "PackedBytes"} =>
    /\ cmb.decoded = [panic |-> FALSE, items |-> cmb.elems]
    /\ cmb.data = PackedFormat(cmb.elems)

\* two blobs of 255 and 510 bytes, the first made of 255-valued bytes
C28_Witness ==
  /\ cmb.op = "PackedBytes"
  /\ Len(cmb.elems) = 2
  /\ Len(cmb.elems[1]) = 255 /\ cmb.elems[1][1] = 255
  /\ Len(cmb.elems[2]) = 510
  /\ Len(cmb.decoded.items) = 2

\* the groups of an aggregation BatchResult: key tuple and aggregate values
GroupsOf(batch) ==
  {<<[n \in 1..Len(batch.group_by[1]) |-> batch.group_by[1][n][r]],
     [m \in 1..Len(batch.select) |-> batch.select[m][r]]>> :
     r \in 1..Len(batch.select[1])}

\* two results hold the same groups, each once
SameGroups(x, y) ==
  /\ x.ok /\ y.ok
  /\ GroupsOf(x.batch) = GroupsOf(y.batch)
  /\ Len(x.batch.select[1]) = Len(y.batch.select[1])
  /\ \A n \in 1..Len(x.batch.group_by[1]) :
       Len(x.batch.group_by[1][n]) = Len(x.batch.select[1])

\* C29: for aggregation results a, b, c with the same aggregator and sorted
\* distinct group keys, combine(a, b) and combine(b, a) hold the same group
\* keys with the same aggregate values, and so do combine(combine(a, b), c)
\* and combine(a, combine(b, c)).
C29_CombineOrderIndependent ==
  cmb.op = "combine_order" =>
    /\ SameGroups(cmb.ab, cmb.ba)
    /\ SameGroups(cmb.ab_c, cmb.a_bc)

\* two-column keys, a group present in all three inputs with different
\* values, and a group of one input only
C29_Witness ==
  /\ cmb.op = "combine_order"
  /\ Len(cmb.a.group_by[1]) = 2
  /\ cmb.a.aggregators = <<"Min">>
  /\ \E x \in GroupsOf(cmb.a), y \in GroupsOf(cmb.b), z \in GroupsOf(cmb.c) :
       x[1] = y[1] /\ y[1] = z[1] /\ x[2] # y[2] /\ y[2] # z[2]
  /\ "MergeRight" \in Range(cmb.ab.ops) /\ "MergeRight" \in Range(cmb.ab_c.ops)
  /\ "TakeRight" \in Range(cmb.ab.ops)

\* the sums of group.left, of group.right and of both over the first n groups
RECURSIVE PremergeSum(_, _)
PremergeSum(partitioning, n) ==
  IF n = 0 THEN [left |-> 0, right |-> 0]
  ELSE LET before == PremergeSum(partitioning, n - 1)
       IN [left |-> before.left + partitioning[n].left,
           right |-> before.right + partitioning[n].right]

\* the number of the first p ops that consume a right element, and the
\* number that emit a result
RightOps(ops, p) == Cardinality({q \in 1..p : ops[q] # "TakeLeft"})
EmitOps(ops, p) == Cardinality({q \in 1..p : ops[q] # "MergeRight"})

\* C30: merge_deduplicate_partitioned consumes, for every Premerge group,
\* exactly group.left elements of left and group.right elements of right and
\* emits group.left + group.right ops, and an op is MergeRight only when the
\* right value it consumes equals a value already emitted inside the same
\* group, so that equal values of different groups are both kept.
C30_PartitionedStaysInGroups ==
  cmb.op = "merge_deduplicate_partitioned" =>
    LET P == cmb.partitioning
        out == cmb.out
    IN /\ Len(out.trace) = Len(P)
       /\ \A g \in 1..Len(P) :
            LET sum == PremergeSum(P, g)
                start == PremergeSum(P, g - 1)
                from == start.left + start.right
            IN /\ out.trace[g].i = sum.left
               /\ out.trace[g].j = sum.right
               /\ out.trace[g].ops = sum.left + sum.right
               /\ \A p \in (from + 1)..(sum.left + sum.right) :
                    out.ops[p] = "MergeRight" =>
                      \E e \in (EmitOps(out.ops, from) + 1)..EmitOps(out.ops, p) :
                        out.result[e] = cmb.right[RightOps(out.ops, p)]

\* three-column keys: a right value merged inside one group, and the same
\* value at the end of one group and the start of the next kept twice
C30_Witness ==
  /\ cmb.op = "merge_deduplicate_partitioned"
  /\ Len(cmb.partitioning) >= 2
  /\ cmb.first1 # cmb.left /\ cmb.partitioning[1].left + cmb.partitioning[1].right >= 2
  /\ "MergeRight" \in Range(cmb.out.ops)
  /\ \E g \in 1..(Len(cmb.out.trace) - 1) :
       /\ cmb.out.trace[g].result >= 1
       /\ cmb.out.trace[g + 1].result > cmb.out.trace[g].result
       /\ cmb.out.result[cmb.out.trace[g].result]
            = cmb.out.result[cmb.out.trace[g].result + 1]

\* group g of partitioning P over the columns left and right: where it
\* starts and ends on each side, and the key it counts
GroupSpan(P, g) == [from |-> PremergeSum(P, g - 1), to |-> PremergeSum(P, g)]
GroupKey(P, g, left, right) ==
  IF P[g].left > 0 THEN left[GroupSpan(P, g).from.left + 1]
  ELSE right[GroupSpan(P, g).from.right + 1]

\* group g is not empty, holds only elements equal to its key, and the
\* elements that follow it before the ends i_max, j_max differ from the key
CompleteRun(P, g, left, right, i_max, j_max) ==
  LET span == GroupSpan(P, g)
      key == GroupKey(P, g, left, right)
  IN /\ P[g].left + P[g].right > 0
     /\ \A i \in (span.from.left + 1)..span.to.left : left[i] = key
     /\ \A j \in (span.from.right + 1)..span.to.right : right[j] = key
     /\ span.to.left < i_max => left[span.to.left + 1] # key
     /\ span.to.right < j_max => right[span.to.right + 1] # key

\* the groups of S that lie inside group g of P
Inside(S, P, g) ==
  {h \in 1..Len(S) :
     /\ GroupSpan(P, g).from.left <= GroupSpan(S, h).from.left
     /\ GroupSpan(P, g).from.right <= GroupSpan(S, h).from.right
     /\ GroupSpan(S, h).to.left <= GroupSpan(P, g).to.left
     /\ GroupSpan(S, h).to.right <= GroupSpan(P, g).to.right}

\* C31: partition on two sorted vectors emits non-empty groups in ascending
\* key order, each counting the complete run of one key on both sides, until
\* both sides are exhausted or limit elements are consumed (so a limit of at
\* least both lengths consumes everything); subpartition splits every group
\* the same way on the next column, the counts of the groups it emits for one
\* input group adding up to the counts of that group.
C31_PartitionGroupsRuns ==
  cmb.op = "partition" =>
    LET P == cmb.partitioning
        S == cmb.sub
        total == PremergeSum(P, Len(P))
    IN /\ \A g \in 1..Len(P) :
            /\ CompleteRun(P, g, cmb.left, cmb.right, Len(cmb.left), Len(cmb.right))
            /\ g > 1 => GroupKey(P, g - 1, cmb.left, cmb.right)
                          < GroupKey(P, g, cmb.left, cmb.right)
            /\ GroupSpan(P, g).from.left + GroupSpan(P, g).from.right < cmb.limit
       /\ total.left <= Len(cmb.left) /\ total.right <= Len(cmb.right)
       /\ \/ total.left = Len(cmb.left) /\ total.right = Len(cmb.right)
          \/ total.left + total.right >= cmb.limit
       /\ PremergeSum(S, Len(S)) = total
       /\ \A g \in 1..Len(P) :
            /\ \E h \in 1..Len(S) : GroupSpan(S, h).to = GroupSpan(P, g).to
            /\ \A h \in Inside(S, P, g) :
                 /\ CompleteRun(S, h, cmb.left2, cmb.right2,
                                GroupSpan(P, g).to.left, GroupSpan(P, g).to.right)
                 /\ h - 1 \in Inside(S, P, g) =>
                      GroupKey(S, h - 1, cmb.left2, cmb.right2)
                        < GroupKey(S, h, cmb.left2, cmb.right2)
       /\ \A h \in 1..Len(S) : \E g \in 1..Len(P) : h \in Inside(S, P, g)

\* a run of two on the left and one on the right in one group, a group cut
\* off by the limit, and a group that subpartition splits in two
C31_Witness ==
  /\ cmb.op = "partition"
  /\ \E g \in 1..Len(cmb.partitioning) :
       cmb.partitioning[g].left = 2 /\ cmb.partitioning[g].right = 1
  /\ \E g \in 1..Len(cmb.partitioning) : Cardinality(Inside(cmb.sub, cmb.partitioning, g)) = 2
  /\ cmb.limit = 3
  /\ PremergeSum(cmb.partitioning, Len(cmb.partitioning)).right < Len(cmb.right)

\* C32: a wal_flush run deletes only WAL segments with ids in the range it
\* recorded in its freeze phase and persists the end of that range as the
\* high-water mark; a segment an ingest_efficient call persisted after the
\* freeze phase is still on disk, with an id at or above the persisted
\* high-water mark, when the run ends.
C32_FlushKeepsLaterSegments ==
  [][/\ \A s \in wal_files \ wal_files' :
          fl.pc = "delete_wal" /\ fl.lo <= s.id /\ s.id < fl.hi
     /\ (fl.pc # "poll" /\ fl'.pc = "poll" /\ crashes' = crashes) =>
          /\ meta_file'.hwm = fl.hi
          /\ \A s \in wal_files :
               s.batch \notin fl.seen => s \in wal_files' /\ s.id >= meta_file'.hwm]_vars

\* a run has ended that deleted the segment it had seen while a segment
\* written during the run is on disk
C32_Witness ==
  /\ fl.pc = "poll"
  /\ crashes = 0
  /\ fl.late # {}
  /\ meta_file.hwm > 0
  /\ \A b \in fl.late : \E s \in wal_files : s.batch = b /\ s.id >= meta_file.hwm
  /\ \A s \in wal_files : s.batch \in fl.late

\* C33 as stated: there are inputs (left, right, limit) for which the main
\* loop of merge_sort or of the Merge operator ends with j > limit or
\* i > limit, so that a tail bound limit - j or limit - i underflows
\* (evaluated over all the inputs tried, once a call has been made).
C33_TailBoundUnderflows ==
  cmb.op \in {"merge_sort", "Merge"} =>
    \E c \in Comparators, limit \in 0..MaxLimit :
      \E left \in SortedVecs(c, FALSE), right \in SortedVecs(c, FALSE) :
        \/ LET st == merge_sort_loop(c, left, right, limit, 0, 0, <<>>, <<>>)
           IN st.j > limit \/ st.i > limit
        \/ LET st == Merge_merge_loop(c, left, right, limit, 0, 0, <<>>, <<>>)
           IN st.j > limit \/ st.i > limit

\* C33 amended: the main loop of merge_sort and of the Merge operator ends
\* with i + j <= limit, so neither limit - j nor limit - i underflows, and
\* the tails are cut so that the result has at most limit elements.
C33_TailBoundsNeverUnderflow ==
  cmb.op \in {"merge_sort", "Merge"} =>
    /\ cmb.i + cmb.j <= cmb.limit
    /\ cmb.limit - cmb.j >= 0 /\ cmb.limit - cmb.i >= 0
    /\ Len(cmb.result) <= cmb.limit

\* the loop took only right elements and stopped at the limit with elements
\* left on both sides: limit - j is 0
C33_Witness ==
  /\ cmb.op = "merge_sort"
  /\ cmb.j = cmb.limit /\ cmb.j >= 2 /\ cmb.i = 0
  /\ Len(cmb.right) > cmb.j /\ Len(cmb.left) > 0

\* the Table objects created for table t since the start
TableObjects(t) == {o \in 1..Len(heap) : heap[o].name = t}

\* C34: a table that is in the tables map is never replaced by a new empty
\* Table: whatever the interleaving of first ingests into a table, one Table
\* object is created for it, and the rows of the ingests that have been
\* applied are in the Table the map holds.
C34_TableNeverReplaced ==
  crashes = 0 =>
    \A t \in UserTables :
      /\ Cardinality(TableObjects(t)) <= 1
      /\ \A o \in TableObjects(t) : heap[o].buffer # <<>> => tables[t] = o

\* C35: the ops stream of merge_deduplicate and of
\* merge_deduplicate_partitioned on sorted group keys does not start with
\* MergeRight, holds exactly len(left) TakeLeft ops and exactly len(right)
\* TakeRight and MergeRight ops, so that merge_aggregate and merge_drop stay
\* inside left and right and never touch the last element of an empty
\* result, and all group_by and select columns of the combined aggregation
\* result have the same length.
C35_OpsWellFormed ==
  (cmb.op = "combine" /\ cmb.batch1.group_by # <<>> /\ cmb.batch2.group_by # <<>>) =>
    LET ops == cmb.out.ops
        batch == cmb.out.batch
        rows == EmitOps(ops, Len(ops))
    IN /\ cmb.out.ok
       /\ \A p \in 1..Len(ops) : ops[p] = "MergeRight" => EmitOps(ops, p) >= 1
       /\ CountOp(ops, "TakeLeft") = Len(cmb.batch1.group_by[1][1])
       /\ CountOp(ops, "TakeRight") + CountOp(ops, "MergeRight")
            = Len(cmb.batch2.group_by[1][1])
       /\ \A n \in 1..Len(batch.group_by[1]) : Len(batch.group_by[1][n]) = rows
       /\ \A m \in 1..Len(batch.select) : Len(batch.select[m]) = rows

\* three group-by columns, every kind of op, the last one a MergeRight
C35_Witness ==
  /\ cmb.op = "combine"
  /\ cmb.batch1.group_by # <<>> /\ cmb.batch2.group_by # <<>>
  /\ Len(cmb.batch1.group_by[1]) = 3
  /\ {"TakeLeft", "TakeRight", "MergeRight"} \subseteq Range(cmb.out.ops)
  /\ cmb.out.ops[Len(cmb.out.ops)] = "MergeRight"

\* how often row occurs in the table a restart would build for table t from
\* the persisted metastore, the partition files and the replayed segments
RestoredCount(t, row) ==
  LET rows == TableRows(RestoredTable(t))
  IN Cardinality({n \in 1..Len(rows) : rows[n] = row})

\* C36: whatever the point at which the process crashes, the restart (which
\* loads the persisted metastore and replays the WAL segments at or above the
\* persisted high-water mark) brings back no row of an ingest_efficient
\* batch twice: no row is both in a listed partition and in a replayed
\* segment, or in two of either.
C36_NoDuplicateAfterRecovery ==
  \A t \in AllTables : \A b \in 1..MaxBatches :
    /\ RestoredCount(t, DataRow(b)) <= 1
    /\ \A n \in UserTables : RestoredCount(t, MetaRow(b, n)) <= 1

\* C37: subpartition returns a partition of its input for every column list
\* with at least one column, whatever the column sizes: it returns, every
\* subpartition holds a column, the subpartitions concatenated in order are
\* the input list, and the metadata has one entry for each subpartition.
C37_SubpartitionPartitionsInput ==
  (cmb.op = "subpartition" /\ cmb.columns # <<>>) =>
    /\ cmb.out.ok
    /\ \A n \in 1..Len(cmb.out.subpartitions) : cmb.out.subpartitions[n] # <<>>
    /\ Concat(cmb.out.subpartitions) = cmb.columns
    /\ Len(cmb.out.metadata) = Len(cmb.out.subpartitions)

\* thread t cannot go on before thread u releases a lock: t is at lock() of a
\* mutex u holds, at read() while u holds write() or is queued at write()
\* (RwLock leaves open whether a reader passes a waiting writer), or at
\* write() while u holds a read or the write guard
WaitsFor(t, u) ==
  LET ins == CurrentIns(lk, t)
  IN \/ ins.i = "lock" /\ lk[ins.m] = u
     \/ ins.i = "read" /\ (lk.writer = u \/ (u # t /\ CurrentIns(lk, u).i = "write"))
     \/ ins.i = "write" /\ (lk.writer = u \/ lk.readers[u] > 0)

\* the threads t waits for, directly or through at most n others
RECURSIVE WaitChain(_, _)
WaitChain(t, n) ==
  LET direct == {u \in LockThreads : WaitsFor(t, u)}
  IN IF n = 0 THEN direct
     ELSE direct \cup UNION {WaitChain(u, n - 1) : u \in direct}

\* the locks thread t holds
Held(t) ==
  {m \in {"wal_size", "task_queue"} : lk[m] = t}
    \cup (IF lk.writer = t \/ lk.readers[t] > 0 THEN {"tables"} ELSE {})

LockRank(m) == CASE m = "wal_size" -> 1 [] m = "tables" -> 2 [] m = "task_queue" -> 3

\* C38: no thread waits, through any chain of threads, for itself, and the
\* three locks are taken in one order (wal_size, tables, task_queue): a thread
\* about to take a lock holds only locks that come before it.
C38_NoLockCycle ==
  \A t \in LockThreads :
    /\ t \notin WaitChain(t, NumLockThreads)
    /\ CurrentIns(lk, t).i \in {"lock", "read", "write"} =>
         \A m \in Held(t) : LockRank(m) < LockRank(CurrentIns(lk, t).m)

\* an ingest_efficient call holds wal_size and waits at tables.write() for a
\* reader inside evict_cache, and wal_flush waits for wal_size
C38_Witness ==
  \E t, u, v \in LockThreads :
    /\ lk.pc[t].op = "ingest_efficient" /\ CurrentIns(lk, t).i = "write"
    /\ lk.pc[u].op = "evict_cache" /\ WaitsFor(t, u)
    /\ lk.pc[v].op = "wal_flush" /\ WaitsFor(v, t)

\* task k is in the queue and does not report completed()
Uncompleted(k) ==
  /\ \E n \in 1..Len(task_queue) : task_queue[n] = k
  /\ ~sched[k].completed

\* await_task has returned task k to a worker that is about to execute it
HandedTo(k) == \E w \in Workers : wk[w].pc = "execute" /\ wk[w].task = k

\* C39: while the database runs, a task in the queue that is not completed is
\* in the end returned by await_task to a worker (or leaves the queue), and a
\* worker waiting on idle_queue while such a task is queued does not wait for
\* ever: it is woken, or the queue ends up without a task to do.
C39_NoLostWakeup ==
  /\ \A k \in 1..MaxTasks :
       (k <= Len(sched) /\ Uncompleted(k)) ~> (HandedTo(k) \/ ~Uncompleted(k))
  /\ \A w \in Workers :
       (wk[w].pc = "wait" /\ \E k \in 1..Len(sched) : Uncompleted(k))
         ~> (wk[w].pc # "wait" \/ \A k \in 1..Len(sched) : ~Uncompleted(k))

\* a task waits in the queue, no worker has it yet, and a worker is still
\* waiting on idle_queue
C39_Witness ==
  \E w \in Workers : \E k \in 1..Len(sched) :
    /\ wk[w].pc = "wait"
    /\ Uncompleted(k)
    /\ ~HandedTo(k)

\* the bytes of the largest WAL segment written so far
LargestSegmentBytes ==
  LET written == {a.data : a \in acked}
                   \cup {thr[c].events : c \in {x \in Clients : thr[x].persist = "done"}}
  IN IF written = {} THEN 0
     ELSE CHOOSE n \in {SegmentBytes(d) : d \in written} :
            \A d \in written : SegmentBytes(d) <= n

\* C40: in a run that starts with wal_size at or below max_wal_size_bytes, at
\* most one ingest_efficient call at a time has a WAL segment being persisted,
\* and wal_size is never above max_wal_size_bytes plus the bytes of one WAL
\* segment, however many threads ingest.
C40_WalOvershootBounded ==
  crashes = 0 =>
    /\ Cardinality({c \in Clients : thr[c].persist = "running"}) <= 1
    /\ wal_size <= MaxWalSizeBytes + LargestSegmentBytes

\* wal_size is above the limit by a whole segment while another thread waits
\* in the backpressure loop
C40_Witness ==
  /\ crashes = 0
  /\ wal_size = MaxWalSizeBytes + LargestSegmentBytes
  /\ wal_size > MaxWalSizeBytes
  /\ \E c \in Clients : thr[c].pc = "waiting"
====
